---- MODULE Spec2Model ----
(***************************************************************************)
(* Model of TMXEditor (src/tmx_editor.py): the in-memory translation       *)
(* memory (the <tu> children of <body>) and the operations that clean it,  *)
(* merge another memory into it and filter it.                             *)
(*                                                                         *)
(* Texts and language tags are sequences of one-character strings, so that *)
(* lower(), strip(), split() and the "|||" key concatenation are computed  *)
(* character by character as Python computes them.  A <seg> is modelled by *)
(* the concatenation of its text runs (''.join(seg.itertext())).  A unit    *)
(* is a record of its identity (id) and its variants; a variant is a       *)
(* record of its language tag and its <seg>.                               *)
(*                                                                         *)
(* body is the sequence of <tu> elements, header the srclang attribute,    *)
(* source_lang and target_lang the pair detected by load, groups the       *)
(* result of the last find_fuzzy_duplicates as its caller keeps it, and    *)
(* last the operation made last: its name, the units before it, its        *)
(* arguments and the dictionary it returned (or the exception it raised).  *)
(* modifications_made is the flag of that name the user interface keeps,   *)
(* and saved the units of the file the memory was loaded from or written   *)
(* to last.                                                                *)
(***************************************************************************)
EXTENDS Integers, Sequences, FiniteSets, TLC

VARIABLES body, header, source_lang, target_lang, groups, last,
          modifications_made, saved

vars == <<body, header, source_lang, target_lang, groups, last, modifications_made, saved>>

(***************************************************************************)
(* Bounds of the model.                                                    *)
(***************************************************************************)
MaxUnits == 3

(***************************************************************************)
(* Python values.                                                          *)
(***************************************************************************)
\* Python's None.  No text equals it: a text holds one-character strings only.
None == <<"None">>

\* truth value of an Optional[str] (None and "" are false)
Truthy(x) == x /= None /\ x /= <<>>

UpperCase == <<"A","B","C","D","E","F","G","H","I","J","K","L","M",
               "N","O","P","Q","R","S","T","U","V","W","X","Y","Z">>

LowerCase == <<"a","b","c","d","e","f","g","h","i","j","k","l","m",
               "n","o","p","q","r","s","t","u","v","w","x","y","z">>

\* str.lower() on one character
LowerChar(c) ==
    IF \E i \in 1..26 : UpperCase[i] = c
    THEN LowerCase[CHOOSE i \in 1..26 : UpperCase[i] = c]
    ELSE c

\* str.lower()
Lower(s) == [i \in 1..Len(s) |-> LowerChar(s[i])]

\* str.isspace() on one character
IsSpace(c) == c \in {" ", "\t", "\n", "\r"}

RECURSIVE LStrip(_)
LStrip(s) == IF s /= <<>> /\ IsSpace(Head(s)) THEN LStrip(Tail(s)) ELSE s

RECURSIVE RStrip(_)
RStrip(s) ==
    IF s /= <<>> /\ IsSpace(s[Len(s)]) THEN RStrip(SubSeq(s, 1, Len(s) - 1)) ELSE s

\* str.strip()
Strip(s) == RStrip(LStrip(s))

\* str.split(): the words between runs of whitespace
RECURSIVE SplitFrom(_, _, _)
SplitFrom(s, cur, acc) ==
    IF s = <<>>
    THEN IF cur = <<>> THEN acc ELSE Append(acc, cur)
    ELSE IF IsSpace(Head(s))
         THEN SplitFrom(Tail(s), <<>>, IF cur = <<>> THEN acc ELSE Append(acc, cur))
         ELSE SplitFrom(Tail(s), Append(cur, Head(s)), acc)

Split(s) == SplitFrom(s, <<>>, <<>>)

\* ' '.join(words)
RECURSIVE JoinSpace(_)
JoinSpace(words) ==
    IF words = <<>> THEN <<>>
    ELSE IF Len(words) = 1 THEN words[1]
    ELSE words[1] \o <<" ">> \o JoinSpace(Tail(words))

\* ' '.join(text.lower().split())
Normalize(text) == JoinSpace(Split(Lower(text)))

\* the separator of the duplicate key
SEP == <<"|", "|", "|">>

\* f"{norm_source}|||{norm_target}"
PairKey(norm_source, norm_target) == norm_source \o SEP \o norm_target

\* code point order of the characters the model uses
CharTable ==
    <<"\t", "\n", "\r", " ", "-", "0", "1", "2", "3", "4", "5", "6", "7", "8", "9">>
        \o UpperCase \o LowerCase \o <<"|">>

Ord(c) == CHOOSE i \in 1..Len(CharTable) : CharTable[i] = c

\* s < t for Python strings
RECURSIVE StrLess(_, _)
StrLess(s, t) ==
    IF t = <<>> THEN FALSE
    ELSE IF s = <<>> THEN TRUE
    ELSE IF Head(s) = Head(t) THEN StrLess(Tail(s), Tail(t))
    ELSE Ord(Head(s)) < Ord(Head(t))

\* sorted(languages)[0]
MinStr(S) == CHOOSE s \in S : \A t \in S \ {s} : StrLess(s, t)

(***************************************************************************)
(* Loading: language pair detection.                                       *)
(***************************************************************************)
Unknown == <<"u","n","k","n","o","w","n">>

\* number of <tuv> elements sampled by _detect_language_pair
SampleSize == 40

\* root.findall('.//tuv'): the variants of all units in document order
RECURSIVE AllTuvs(_)
AllTuvs(tus) == IF tus = <<>> THEN <<>> ELSE Head(tus).tuvs \o AllTuvs(Tail(tus))

\* DetectLanguagePair that reads the tags of all variants, not of a sample
DetectLanguagePairAllTuvs(hdr, tus) ==
    LET header_src_lang == IF Lower(hdr) = <<>> THEN None ELSE Lower(hdr)
        sample == AllTuvs(tus)
        languages == {Lower(sample[i].lang) : i \in {k \in 1..Len(sample) : sample[k].lang /= <<>>}}
    IN  IF Cardinality(languages) = 1
        THEN <<CHOOSE l \in languages : TRUE, Unknown>>
        ELSE IF Cardinality(languages) < 1
        THEN <<Unknown, Unknown>>
        ELSE IF header_src_lang /= None /\ header_src_lang \in languages
        THEN <<header_src_lang, MinStr(languages \ {header_src_lang})>>
        ELSE <<MinStr(languages), MinStr(languages \ {MinStr(languages)})>>

\* TMXEditor._detect_language_pair
DetectLanguagePair(hdr, tus) ==
    LET header_src_lang == IF Lower(hdr) = <<>> THEN None ELSE Lower(hdr)
        tuvs == AllTuvs(tus)
        sample == SubSeq(tuvs, 1, IF Len(tuvs) < SampleSize THEN Len(tuvs) ELSE SampleSize)
        languages == {Lower(sample[i].lang) : i \in {k \in 1..Len(sample) : sample[k].lang /= <<>>}}
    IN  IF Cardinality(languages) = 1
        THEN <<CHOOSE l \in languages : TRUE, Unknown>>
        ELSE IF Cardinality(languages) < 1
        THEN <<Unknown, Unknown>>
        ELSE IF header_src_lang /= None /\ header_src_lang \in languages
        THEN <<header_src_lang, MinStr(languages \ {header_src_lang})>>
        ELSE <<MinStr(languages), MinStr(languages \ {MinStr(languages)})>>

(***************************************************************************)
(* Text extraction.                                                        *)
(***************************************************************************)
\* TMXEditor._get_seg_text: "" for a missing <seg>, else the stripped text
GetSegText(seg) == IF seg = None THEN <<>> ELSE Strip(seg)

\* the loop of _get_tu_texts over the variants; s and t are the positions of
\* source_tuv and target_tuv, 0 for None
RECURSIVE ScanTuvs(_, _, _, _, _, _)
ScanTuvs(tuvs, k, s, t, sl, tl) ==
    IF k > Len(tuvs) THEN <<s, t>>
    ELSE LET tuv_lang == Lower(tuvs[k].lang)
         IN  IF tuv_lang = sl \/ (s = 0 /\ t = 0)
             THEN ScanTuvs(tuvs, k + 1, k, t, sl, tl)
             ELSE IF tuv_lang = tl \/ t = 0
             THEN ScanTuvs(tuvs, k + 1, s, k, sl, tl)
             ELSE ScanTuvs(tuvs, k + 1, s, t, sl, tl)

\* positions of the variants _get_tu_texts reads the two texts from
PickTuvs(tuvs, sl, tl) ==
    LET st == ScanTuvs(tuvs, 1, 0, 0, sl, tl)
        source_tuv == IF st[1] = 0 THEN 1 ELSE st[1]
        target_tuv == IF st[2] = 0 THEN (IF Len(tuvs) > 1 THEN 2 ELSE 1) ELSE st[2]
    IN  <<source_tuv, target_tuv>>

\* GetTuTextsFor that fails when the source variant has no <seg>
GetTuTextsForMissingSeg(tu, sl, tl) ==
    IF Len(tu.tuvs) < 2
    THEN [source |-> None, target |-> None]
    ELSE LET p == PickTuvs(tu.tuvs, sl, tl)
         IN  IF tu.tuvs[p[1]].seg = None
             THEN [source |-> None, target |-> None]
             ELSE [source |-> GetSegText(tu.tuvs[p[1]].seg),
                   target |-> GetSegText(tu.tuvs[p[2]].seg)]

\* TMXEditor._get_tu_texts with the editor's language pair sl -> tl
GetTuTextsFor(tu, sl, tl) ==
    IF Len(tu.tuvs) < 2
    THEN [source |-> None, target |-> None]
    ELSE LET p == PickTuvs(tu.tuvs, sl, tl)
         IN  [source |-> GetSegText(tu.tuvs[p[1]].seg),
              target |-> GetSegText(tu.tuvs[p[2]].seg)]

GetTuTexts(tu) == GetTuTextsFor(tu, source_lang, target_lang)

\* RemoveAll with units compared by content instead of identity
RemoveAllByValue(tus, to_remove) ==
    SelectSeq(tus, LAMBDA tu : \A i \in 1..Len(to_remove) : to_remove[i].tuvs /= tu.tuvs)

\* RemoveAll that stops after the first removal
RemoveFirstOnly(tus, to_remove) ==
    SelectSeq(tus, LAMBDA tu : to_remove = <<>> \/ to_remove[1].id /= tu.id)

\* body.remove(tu) for every tu of to_remove: Element.remove drops the child
\* that is this very element (units are told apart by id)
RemoveAll(tus, to_remove) ==
    SelectSeq(tus, LAMBDA tu : \A i \in 1..Len(to_remove) : to_remove[i].id /= tu.id)

\* s[:n]
Prefix(s, n) == SubSeq(s, 1, IF Len(s) < n THEN Len(s) ELSE n)

(***************************************************************************)
(* Operation 1: remove exact duplicates.                                   *)
(***************************************************************************)
MaxExamples == 10
ExampleLen == 80

\* TuKey without lower(): the key is case-sensitive
TuKeyCaseSensitive(tu) ==
    LET tx == GetTuTexts(tu)
    IN  PairKey(JoinSpace(Split(tx.source)), JoinSpace(Split(tx.target)))

\* the duplicate key remove_exact_duplicates computes for a unit
TuKey(tu) ==
    LET tx == GetTuTexts(tu)
    IN  PairKey(Normalize(tx.source), Normalize(tx.target))

\* ExactScan that remembers the key of the previous unit only
RECURSIVE ExactScanAdjacent(_, _, _, _, _)
ExactScanAdjacent(all_tus, k, seen_keys, to_remove, examples) ==
    IF k > Len(all_tus)
    THEN [to_remove |-> to_remove, examples |-> examples]
    ELSE LET tu == all_tus[k]
             tx == GetTuTexts(tu)
         IN  IF tx.source = None
             THEN ExactScanAdjacent(all_tus, k + 1, seen_keys, to_remove, examples)
             ELSE IF PairKey(Normalize(tx.source), Normalize(tx.target)) \in seen_keys
             THEN ExactScanAdjacent(all_tus, k + 1, seen_keys, Append(to_remove, tu), examples)
             ELSE ExactScanAdjacent(all_tus, k + 1,
                                    {PairKey(Normalize(tx.source), Normalize(tx.target))},
                                    to_remove, examples)

\* the scan of remove_exact_duplicates over all_tus[k..]
RECURSIVE ExactScan(_, _, _, _, _)
ExactScan(all_tus, k, seen_keys, to_remove, examples) ==
    IF k > Len(all_tus)
    THEN [to_remove |-> to_remove, examples |-> examples]
    ELSE LET tu == all_tus[k]
             tx == GetTuTexts(tu)
         IN  IF tx.source = None
             THEN ExactScan(all_tus, k + 1, seen_keys, to_remove, examples)
             ELSE IF TuKey(tu) \in seen_keys
             THEN ExactScan(all_tus, k + 1, seen_keys, Append(to_remove, tu),
                            IF Len(examples) < MaxExamples
                            THEN Append(examples, [source |-> Prefix(tx.source, ExampleLen),
                                                   target |-> Prefix(tx.target, ExampleLen)])
                            ELSE examples)
             ELSE ExactScan(all_tus, k + 1, seen_keys \cup {TuKey(tu)}, to_remove, examples)

\* TMXEditor.remove_exact_duplicates
RemoveExactDuplicates ==
    LET all_tus == body
        total_before == Len(all_tus)
    IN  \E scan \in {ExactScan(all_tus, 1, {}, <<>>, <<>>)} :
            /\ body' = RemoveAll(body, scan.to_remove)
            /\ last' = [op |-> "remove_exact_duplicates",
                        before |-> body,
                        result |-> [removed_count |-> Len(scan.to_remove),
                                    unique_count |-> total_before - Len(scan.to_remove),
                                    total_before |-> total_before,
                                    examples |-> scan.examples]]
            /\ UNCHANGED <<header, source_lang, target_lang, groups, modifications_made, saved>>

(***************************************************************************)
(* Operation 2: fuzzy duplicates.                                          *)
(***************************************************************************)
\* length of the common run of a[i..ahi] and b[j..bhi] that starts at (i, j)
RECURSIVE RunLen(_, _, _, _, _, _)
RunLen(a, b, i, j, ahi, bhi) ==
    IF i > ahi \/ j > bhi THEN 0
    ELSE IF a[i] /= b[j] THEN 0
    ELSE 1 + RunLen(a, b, i + 1, j + 1, ahi, bhi)

\* difflib.SequenceMatcher.find_longest_match without junk (isjunk is None and
\* autojunk only acts on sequences of 200 or more elements): the longest
\* block, the one starting earliest in a, then earliest in b
FindLongestMatch(a, b, alo, ahi, blo, bhi) ==
    LET cells == (alo..ahi) \X (blo..bhi)
        sizes == {RunLen(a, b, c[1], c[2], ahi, bhi) : c \in cells}
        bestsize == CHOOSE k \in sizes : \A m \in sizes : m <= k
        starts == {c \in cells : RunLen(a, b, c[1], c[2], ahi, bhi) = bestsize}
        besti == CHOOSE i \in {c[1] : c \in starts} : \A c \in starts : i <= c[1]
        bestj == CHOOSE j \in {c[2] : c \in {d \in starts : d[1] = besti}} :
                     \A c \in {d \in starts : d[1] = besti} : j <= c[2]
    IN  IF bestsize = 0 THEN <<alo, blo, 0>> ELSE <<besti, bestj, bestsize>>

\* sum of the sizes of difflib.SequenceMatcher.get_matching_blocks: the longest
\* match, then the same to its left and to its right
RECURSIVE Matches(_, _, _, _, _, _)
Matches(a, b, alo, ahi, blo, bhi) ==
    IF alo > ahi \/ blo > bhi THEN 0
    ELSE LET m == FindLongestMatch(a, b, alo, ahi, blo, bhi)
         IN  IF m[3] = 0 THEN 0
             ELSE m[3] + Matches(a, b, alo, m[1] - 1, blo, m[2] - 1)
                       + Matches(a, b, m[1] + m[3], ahi, m[2] + m[3], bhi)

\* difflib.SequenceMatcher(None, a, b).ratio() as the fraction <<num, den>>:
\* 2.0 * matches / (len(a) + len(b)), and 1.0 when both are empty
Ratio(a, b) ==
    IF Len(a) + Len(b) = 0 THEN <<1, 1>>
    ELSE <<2 * Matches(a, b, 1, Len(a), 1, Len(b)), Len(a) + Len(b)>>

\* ratio >= threshold, threshold being the fraction <<num, den>>
RatioGeq(ratio, threshold) == ratio[1] * threshold[2] >= threshold[1] * ratio[2]

\* round(ratio * 100, 1), in tenths of a percent (round half to even)
Similarity(ratio) ==
    LET q == (1000 * ratio[1]) \div ratio[2]
        r == (1000 * ratio[1]) % ratio[2]
    IN  IF 2 * r > ratio[2] \/ (2 * r = ratio[2] /\ q % 2 = 1) THEN q + 1 ELSE q

\* tu_data: (i + 1, tu, src, tgt or "") for the units whose source is not empty
RECURSIVE TuData(_, _, _, _)
TuData(all_tus, k, sl, tl) ==
    IF k > Len(all_tus) THEN <<>>
    ELSE LET tx == GetTuTextsFor(all_tus[k], sl, tl)
         IN  IF Truthy(tx.source)
             THEN <<[tu_number |-> k, tu_element |-> all_tus[k].id, source |-> tx.source,
                     target |-> IF Truthy(tx.target) THEN tx.target ELSE <<>>]>>
                  \o TuData(all_tus, k + 1, sl, tl)
             ELSE TuData(all_tus, k + 1, sl, tl)

\* UniqueBySource that keeps every item
UniqueBySourceKeepAll(tu_data, seen_exact) == tu_data

\* UniqueBySource that tells sources apart by case
RECURSIVE UniqueBySourceCaseSensitive(_, _)
UniqueBySourceCaseSensitive(tu_data, seen_exact) ==
    IF tu_data = <<>> THEN <<>>
    ELSE LET norm == JoinSpace(Split(Head(tu_data).source))
         IN  IF norm \notin seen_exact
             THEN <<Head(tu_data)>>
                  \o UniqueBySourceCaseSensitive(Tail(tu_data), seen_exact \cup {norm})
             ELSE UniqueBySourceCaseSensitive(Tail(tu_data), seen_exact)

\* unique_tus: the first item of every normalized source
RECURSIVE UniqueBySource(_, _)
UniqueBySource(tu_data, seen_exact) ==
    IF tu_data = <<>> THEN <<>>
    ELSE LET norm == Normalize(Head(tu_data).source)
         IN  IF norm \notin seen_exact
             THEN <<Head(tu_data)>> \o UniqueBySource(Tail(tu_data), seen_exact \cup {norm})
             ELSE UniqueBySource(Tail(tu_data), seen_exact)

\* list.sort(key=lambda x: len(x[2])): stable, ascending source length
RECURSIVE SortByLen(_)
SortByLen(items) ==
    IF items = <<>> THEN <<>>
    ELSE LET rest == SortByLen(SubSeq(items, 1, Len(items) - 1))
             x == items[Len(items)]
             le == SelectSeq(rest, LAMBDA y : Len(y.source) <= Len(x.source))
             gt == SelectSeq(rest, LAMBDA y : Len(y.source) > Len(x.source))
         IN  le \o <<x>> \o gt

\* the length-ratio pruning test: len_i > 0 and len_j > len_i / threshold
Pruned(len_i, len_j, threshold) ==
    len_i > 0 /\ len_j * threshold[1] > len_i * threshold[2]

\* the inner loop of find_fuzzy_duplicates for representative i, from j on
RECURSIVE FuzzyInner(_, _, _, _, _, _)
FuzzyInner(unique_tus, i, j, matched, group_similar, threshold) ==
    IF j > Len(unique_tus)
    THEN [matched |-> matched, group_similar |-> group_similar]
    ELSE IF j \in matched
    THEN FuzzyInner(unique_tus, i, j + 1, matched, group_similar, threshold)
    ELSE IF Pruned(Len(unique_tus[i].source), Len(unique_tus[j].source), threshold)
    THEN [matched |-> matched, group_similar |-> group_similar]
    ELSE LET ratio == Ratio(Lower(unique_tus[i].source), Lower(unique_tus[j].source))
         IN  IF RatioGeq(ratio, threshold)
             THEN FuzzyInner(unique_tus, i, j + 1, matched \cup {j},
                             Append(group_similar,
                                    [tu_number |-> unique_tus[j].tu_number,
                                     tu_element |-> unique_tus[j].tu_element,
                                     source |-> unique_tus[j].source,
                                     target |-> unique_tus[j].target,
                                     similarity |-> Similarity(ratio)]),
                             threshold)
             ELSE FuzzyInner(unique_tus, i, j + 1, matched, group_similar, threshold)

\* FuzzyOuter without "if matched[i]: continue": a matched item opens a group too
RECURSIVE FuzzyOuterNoSkip(_, _, _, _, _)
FuzzyOuterNoSkip(unique_tus, i, matched, grps, threshold) ==
    IF i > Len(unique_tus) THEN grps
    ELSE LET inner == FuzzyInner(unique_tus, i, i + 1, matched, <<>>, threshold)
         IN  FuzzyOuterNoSkip(unique_tus, i + 1, inner.matched,
                              IF inner.group_similar /= <<>>
                              THEN Append(grps, [representative_tu |-> unique_tus[i].tu_number,
                                                 representative_source |-> unique_tus[i].source,
                                                 representative_target |-> unique_tus[i].target,
                                                 similar_tus |-> inner.group_similar])
                              ELSE grps,
                              threshold)

\* the outer loop of find_fuzzy_duplicates, from i on
RECURSIVE FuzzyOuter(_, _, _, _, _)
FuzzyOuter(unique_tus, i, matched, grps, threshold) ==
    IF i > Len(unique_tus) THEN grps
    ELSE IF i \in matched THEN FuzzyOuter(unique_tus, i + 1, matched, grps, threshold)
    ELSE LET inner == FuzzyInner(unique_tus, i, i + 1, matched, <<>>, threshold)
         IN  FuzzyOuter(unique_tus, i + 1, inner.matched,
                        IF inner.group_similar /= <<>>
                        THEN Append(grps, [representative_tu |-> unique_tus[i].tu_number,
                                           representative_source |-> unique_tus[i].source,
                                           representative_target |-> unique_tus[i].target,
                                           similar_tus |-> inner.group_similar])
                        ELSE grps,
                        threshold)

\* the groups find_fuzzy_duplicates(threshold) returns for the units all_tus
FuzzyGroups(all_tus, sl, tl, threshold) ==
    FuzzyOuter(SortByLen(UniqueBySource(TuData(all_tus, 1, sl, tl), {})), 1, {}, <<>>, threshold)

\* the thresholds a caller passes, as fractions: 0.5 and 0.9
Thresholds == {<<1, 2>>, <<9, 10>>}

\* TMXEditor.find_fuzzy_duplicates: the caller keeps the groups
FindFuzzyDuplicates(threshold) ==
    /\ groups' = FuzzyGroups(body, source_lang, target_lang, threshold)
    /\ last' = [op |-> "find_fuzzy_duplicates",
                before |-> body,
                result |-> [threshold |-> threshold, groups |-> groups']]
    /\ UNCHANGED <<body, header, source_lang, target_lang, modifications_made, saved>>

\* the similar members of all groups, in the order remove_fuzzy_duplicates visits them
RECURSIVE SimilarIds(_)
SimilarIds(grps) ==
    IF grps = <<>> THEN <<>>
    ELSE [k \in 1..Len(Head(grps).similar_tus) |-> Head(grps).similar_tus[k].tu_element]
         \o SimilarIds(Tail(grps))

\* FuzzyRemoveLoop that counts a reference whether or not body.remove found it
RECURSIVE FuzzyRemoveLoopCountsAll(_, _, _)
FuzzyRemoveLoopCountsAll(tus, ids, removed) ==
    IF ids = <<>> THEN [body |-> tus, removed |-> removed]
    ELSE FuzzyRemoveLoopCountsAll(SelectSeq(tus, LAMBDA tu : tu.id /= Head(ids)), Tail(ids),
                                  removed + 1)

\* the loop of remove_fuzzy_duplicates: body.remove raises ValueError for an
\* element that is no child of body, which is caught and not counted
RECURSIVE FuzzyRemoveLoop(_, _, _)
FuzzyRemoveLoop(tus, ids, removed) ==
    IF ids = <<>> THEN [body |-> tus, removed |-> removed]
    ELSE IF \E k \in 1..Len(tus) : tus[k].id = Head(ids)
    THEN FuzzyRemoveLoop(SelectSeq(tus, LAMBDA tu : tu.id /= Head(ids)), Tail(ids), removed + 1)
    ELSE FuzzyRemoveLoop(tus, Tail(ids), removed)

\* TMXEditor.remove_fuzzy_duplicates(groups), which its callers reach with the
\* groups of a find_fuzzy_duplicates that found some ("if not groups: return")
RemoveFuzzyDuplicates ==
    /\ groups /= <<>>
    /\ \E loop \in {FuzzyRemoveLoop(body, SimilarIds(groups), 0)} :
           /\ body' = loop.body
           /\ last' = [op |-> "remove_fuzzy_duplicates",
                       before |-> body,
                       result |-> [removed_count |-> loop.removed]]
    /\ UNCHANGED <<header, source_lang, target_lang, groups, modifications_made, saved>>

(***************************************************************************)
(* Operation 3: remove empty or missing segments.                          *)
(***************************************************************************)
Categories == {"missing_tuv", "invalid_structure", "both_empty", "empty_source", "empty_target"}

\* by_type[c] += 1
Bump(by_type, c) == [by_type EXCEPT ![c] = @ + 1]

\* EmptyStep with "if" for "elif": a unit is counted in every category that matches
EmptyStepAllMatches(tu, st, sl, tl) ==
    LET tx == GetTuTextsFor(tu, sl, tl)
        hit(s, c) == [to_remove |-> Append(s.to_remove, tu), by_type |-> Bump(s.by_type, c)]
        s1 == IF ~Truthy(tx.source) /\ ~Truthy(tx.target) THEN hit(st, "both_empty") ELSE st
        s2 == IF ~Truthy(tx.source) THEN hit(s1, "empty_source") ELSE s1
        s3 == IF ~Truthy(tx.target) THEN hit(s2, "empty_target") ELSE s2
    IN  IF Len(tu.tuvs) < 2 THEN hit(st, "missing_tuv")
        ELSE IF tx.source = None THEN hit(st, "invalid_structure")
        ELSE s3

\* EmptyStep without the empty_target branch
EmptyStepKeepsEmptyTarget(tu, st, sl, tl) ==
    LET tx == GetTuTextsFor(tu, sl, tl)
        hit(c) == [to_remove |-> Append(st.to_remove, tu), by_type |-> Bump(st.by_type, c)]
    IN  IF Len(tu.tuvs) < 2 THEN hit("missing_tuv")
        ELSE IF tx.source = None THEN hit("invalid_structure")
        ELSE IF ~Truthy(tx.source) /\ ~Truthy(tx.target) THEN hit("both_empty")
        ELSE IF ~Truthy(tx.source) THEN hit("empty_source")
        ELSE st

\* one iteration of the loop of remove_empty_segments on the unit tu: the
\* to_remove list and the by_type counters after it
EmptyStep(tu, st, sl, tl) ==
    LET tx == GetTuTextsFor(tu, sl, tl)
        hit(c) == [to_remove |-> Append(st.to_remove, tu), by_type |-> Bump(st.by_type, c)]
    IN  IF Len(tu.tuvs) < 2 THEN hit("missing_tuv")
        ELSE IF tx.source = None THEN hit("invalid_structure")
        ELSE IF ~Truthy(tx.source) /\ ~Truthy(tx.target) THEN hit("both_empty")
        ELSE IF ~Truthy(tx.source) THEN hit("empty_source")
        ELSE IF ~Truthy(tx.target) THEN hit("empty_target")
        ELSE st

\* the loop of remove_empty_segments over all_tus[k..]
RECURSIVE EmptyScan(_, _, _, _, _)
EmptyScan(all_tus, k, st, sl, tl) ==
    IF k > Len(all_tus) THEN st
    ELSE EmptyScan(all_tus, k + 1, EmptyStep(all_tus[k], st, sl, tl), sl, tl)

\* TMXEditor.remove_empty_segments
RemoveEmptySegments ==
    LET all_tus == body
        total_before == Len(all_tus)
    IN  \E scan \in {EmptyScan(all_tus, 1,
                                [to_remove |-> <<>>, by_type |-> [c \in Categories |-> 0]],
                                source_lang, target_lang)} :
            /\ body' = RemoveAll(body, scan.to_remove)
            /\ last' = [op |-> "remove_empty_segments",
                        before |-> body,
                        result |-> [removed_count |-> Len(scan.to_remove),
                                    remaining_count |-> total_before - Len(scan.to_remove),
                                    total_before |-> total_before,
                                    by_type |-> scan.by_type]]
            /\ UNCHANGED <<header, source_lang, target_lang, groups, modifications_made, saved>>

(***************************************************************************)
(* The memories a load can produce, and the state machine.                 *)
(***************************************************************************)
Tuv(lang, seg) == [lang |-> lang, seg |-> seg]

EN == <<"e", "n">>
ES == <<"e", "s">>
FR == <<"f", "r">>

\* a unit <tuv en><tuv es>
Pair(s, t) == <<Tuv(EN, s), Tuv(ES, t)>>

Cat == <<"c","a","t">>
Gato == <<"g","a","t","o">>
Dog == <<"d","o","g">>
Perro == <<"p","e","r","r","o">>
Color == <<"c","o","l","o","r">>
Colour == <<"c","o","l","o","u","r">>
Banana == <<"b","a","n","a","n","a">>

\* units that are equal up to case, and a unit with one variant
KeyPool ==
    { Pair(Cat, Gato),
      Pair(<<"C","A","T">>, <<"G","a","t","o">>),
      Pair(Dog, Perro),
      <<Tuv(EN, Cat)>> }

\* units that are equal up to whitespace, units that differ in the place of a "|"
SepPool ==
    { Pair(<<"a"," ","b">>, Cat),
      Pair(<<" ","A","\t"," ","b">>, <<"c","a","t","\n">>),
      Pair(<<"a","|">>, <<"b">>),
      Pair(<<"a">>, <<"|","b">>) }

\* units that differ in the number, the order and the tags of their variants
ShapePool ==
    { Pair(Cat, Gato),
      <<Tuv(<<"E","S">>, Perro), Tuv(<<"E","N">>, Dog)>>,
      <<Tuv(EN, Cat), Tuv(FR, <<"c","h","a","t">>), Tuv(ES, Gato)>>,
      <<Tuv(FR, <<"c","h","a","t">>), Tuv(<<>>, Gato)>> }

\* units with a missing <seg>, an empty or a blank text
EmptyPool ==
    { Pair(Cat, Gato),
      Pair(<<>>, Gato),
      Pair(Cat, <<" "," ">>),
      Pair(None, None) }

\* units whose sources are near to or far from each other, or equal up to case
FuzzyPool ==
    { Pair(Color, Gato),
      Pair(Colour, Gato),
      Pair(Banana, Perro),
      Pair(<<"C","o","l","o","r">>, Perro) }

\* units whose sources are prefixes of each other
PrefixPool ==
    { Pair(<<"a","b">>, Cat),
      Pair(<<"a","b","c">>, Cat),
      Pair(<<"a","b","c","d","e">>, Cat),
      Pair(<<"a","b","c","d","e","f">>, Cat) }

\* the documents loaded: the units of <body> come from one pool and are at most
\* MaxUnits + more, srclang of <header> is one of headers ("" when the
\* attribute is absent)
Documents ==
    { [pool |-> KeyPool,   headers |-> {<<>>},             more |-> 0],
      [pool |-> SepPool,   headers |-> {EN},               more |-> 0],
      [pool |-> ShapePool, headers |-> {<<>>, <<"E","S">>}, more |-> 0],
      [pool |-> EmptyPool, headers |-> {<<>>},             more |-> 0] }

\* the documents loaded to search fuzzy duplicates in
FuzzyDocuments ==
    { [pool |-> FuzzyPool,  headers |-> {<<>>}, more |-> 0],
      [pool |-> PrefixPool, headers |-> {EN},   more |-> 1] }

\* the state after TMXEditor.load of a document of docs: the language pair is
\* the one detected in it
Loaded(docs) ==
    /\ \E d \in docs :
          /\ header \in d.headers
          /\ \E n \in 0..(MaxUnits + d.more) : \E f \in [1..n -> d.pool] :
                 body = [i \in 1..n |-> [id |-> i, tuvs |-> f[i]]]
    /\ source_lang = DetectLanguagePair(header, body)[1]
    /\ target_lang = DetectLanguagePair(header, body)[2]
    /\ groups = <<>>
    /\ last = [op |-> "load", before |-> <<>>, result |-> [total |-> Len(body)]]
    /\ modifications_made = FALSE
    /\ saved = body

Init == Loaded(Documents)

InitFuzzy == Loaded(FuzzyDocuments)

Next ==
    \/ RemoveExactDuplicates
    \/ \E threshold \in Thresholds : FindFuzzyDuplicates(threshold)
    \/ RemoveFuzzyDuplicates
    \/ RemoveEmptySegments

Spec == Init /\ [][Next]_vars

\* the thresholds the fuzzy duplicate handler accepts go up to 1.0 (input 100)
FuzzyThresholds == Thresholds \cup {<<1, 1>>}

\* the fuzzy duplicate handler alone: a search, then the removal of what it found
NextFuzzy ==
    \/ \E threshold \in FuzzyThresholds : FindFuzzyDuplicates(threshold)
    \/ RemoveFuzzyDuplicates

SpecFuzzy == InitFuzzy /\ [][NextFuzzy]_vars

(***************************************************************************)
(* Properties of remove_exact_duplicates.                                  *)
(***************************************************************************)
AfterExact == last.op = "remove_exact_duplicates"

\* the unit has an extracted source text (it has two variants or more)
HasSource(tu) == GetTuTexts(tu).source /= None

\* the pairKey of a unit: normalized source, separator, normalized target
KeyOf(tu) ==
    Normalize(GetTuTexts(tu).source) \o <<"|", "|", "|">> \o Normalize(GetTuTexts(tu).target)

\* the unit at position k of tus has a source text and an earlier unit of tus
\* has its pairKey
LaterOccurrence(tus, k) ==
    /\ HasSource(tus[k])
    /\ \E m \in 1..(k - 1) : HasSource(tus[m]) /\ KeyOf(tus[m]) = KeyOf(tus[k])

\* the units of tus that are no later occurrence of a pairKey, in their order
FirstOccurrences(tus) ==
    SelectSeq(tus, LAMBDA tu : \A k \in 1..Len(tus) : tus[k].id = tu.id => ~LaterOccurrence(tus, k))

\* the memory [(cat, gato), (CAT, Gato), (dog, perro)]
IsCatCatDog(tus) ==
    /\ Len(tus) = 3
    /\ tus[1].tuvs = Pair(Cat, Gato)
    /\ tus[2].tuvs = Pair(<<"C","A","T">>, <<"G","a","t","o">>)
    /\ tus[3].tuvs = Pair(Dog, Perro)

\* C1: after remove_exact_duplicates no two units left in the memory that have
\* a source text share a pairKey.
C1_NoSharedPairKey ==
    AfterExact =>
        \A i, j \in 1..Len(body) :
            (i < j /\ HasSource(body[i]) /\ HasSource(body[j])) => KeyOf(body[i]) /= KeyOf(body[j])

\* a call that removed a duplicate and left two units with a source text
C1_Witness ==
    /\ AfterExact
    /\ last.result.removed_count > 0
    /\ \E i, j \in 1..Len(body) : i < j /\ HasSource(body[i]) /\ HasSource(body[j])

\* C2: remove_exact_duplicates removes a unit if and only if it has a source
\* text and an earlier unit has its pairKey; the first occurrences and the
\* units without source text stay, in their order; of [(cat, gato),
\* (CAT, Gato), (dog, perro)] it removes the second unit, removed_count = 1.
C2_RemovesLaterOccurrences ==
    AfterExact =>
        /\ body = FirstOccurrences(last.before)
        /\ last.result.removed_count = Len(last.before) - Len(FirstOccurrences(last.before))
        /\ IsCatCatDog(last.before) =>
               /\ body = <<last.before[1], last.before[3]>>
               /\ last.result.removed_count = 1

\* the call on [(cat, gato), (CAT, Gato), (dog, perro)]
C2_Witness == AfterExact /\ IsCatCatDog(last.before) /\ Len(body) = 2

\* C3: a call of remove_exact_duplicates directly after another one removes
\* nothing: removed_count = 0 and the units stay as they are.
C3_SecondCallNoOp ==
    [][(AfterExact /\ last'.op = "remove_exact_duplicates")
           => (last'.result.removed_count = 0 /\ body' = body)]_vars

\* a first call that removed units, after which the second call is made
C3_Witness == AfterExact /\ last.result.removed_count > 0 /\ Len(body) > 1

\* C4: unique_count + removed_count = total_before, total_before is the number
\* of units before the call and unique_count the number of units after it.
C4_Counts ==
    AfterExact =>
        /\ last.result.unique_count + last.result.removed_count = last.result.total_before
        /\ last.result.total_before = Len(last.before)
        /\ last.result.unique_count = Len(body)

\* a call that removed a unit and passed a unit without source text through
C4_Witness ==
    /\ AfterExact
    /\ last.result.removed_count > 0
    /\ \E i \in 1..Len(body) : ~HasSource(body[i])

\* C5: the separator does not collide with normalized text: a unit is removed
\* as an exact duplicate only if an earlier unit has an equal normalized source
\* and an equal normalized target.
C5_KeyIdentifiesPair ==
    AfterExact =>
        \A k \in 1..Len(last.before) :
            (\A i \in 1..Len(body) : body[i].id /= last.before[k].id) =>
                \E m \in 1..(k - 1) :
                    /\ HasSource(last.before[m])
                    /\ Normalize(GetTuTexts(last.before[m]).source)
                           = Normalize(GetTuTexts(last.before[k]).source)
                    /\ Normalize(GetTuTexts(last.before[m]).target)
                           = Normalize(GetTuTexts(last.before[k]).target)

(***************************************************************************)
(* Properties of _get_tu_texts.                                            *)
(***************************************************************************)
\* the positions of the variants of tuvs whose lowercased tag is lang
Tagged(tuvs, lang) == {i \in 1..Len(tuvs) : Lower(tuvs[i].lang) = lang}

\* C6: for a unit with two variants or more, the source text is the text of
\* the variant tagged sourceLang (of the first variant when none is) and the
\* target text the text of the variant tagged targetLang (of the second
\* variant when none is), whatever the order of the variants.
C6_ExtractsByLanguage ==
    \A k \in 1..Len(body) :
        Len(body[k].tuvs) >= 2 =>
            LET tuvs == body[k].tuvs
                tx == GetTuTexts(body[k])
            IN  /\ IF Tagged(tuvs, source_lang) = {}
                   THEN tx.source = GetSegText(tuvs[1].seg)
                   ELSE \E i \in Tagged(tuvs, source_lang) : tx.source = GetSegText(tuvs[i].seg)
                /\ IF Tagged(tuvs, target_lang) = {}
                   THEN tx.target = GetSegText(tuvs[2].seg)
                   ELSE \E i \in Tagged(tuvs, target_lang) : tx.target = GetSegText(tuvs[i].seg)

(***************************************************************************)
(* Properties of remove_empty_segments.                                    *)
(***************************************************************************)
AfterEmpty == last.op = "remove_empty_segments"

\* the category of a unit, the first that matches; "valid" when none does
CategoryOf(tu) ==
    IF Len(tu.tuvs) < 2 THEN "missing_tuv"
    ELSE IF GetTuTexts(tu).source = None THEN "invalid_structure"
    ELSE IF GetTuTexts(tu).source = <<>> /\ GetTuTexts(tu).target = <<>> THEN "both_empty"
    ELSE IF GetTuTexts(tu).source = <<>> THEN "empty_source"
    ELSE IF GetTuTexts(tu).target = <<>> THEN "empty_target"
    ELSE "valid"

\* a valid unit: two variants or more, source and target text not empty
Valid(tu) ==
    /\ Len(tu.tuvs) >= 2
    /\ GetTuTexts(tu).source /= <<>>
    /\ GetTuTexts(tu).target /= <<>>

\* C7: every removed unit is counted in exactly one category, the first that
\* matches, and a valid unit in none: the per-category counts are the numbers
\* of units of each category, their sum is removed_count, removed_count +
\* remaining_count = total_before, and remaining_count units are left.
C7_CategoriesPartition ==
    AfterEmpty =>
        LET r == last.result
        IN  /\ \A c \in Categories :
                   r.by_type[c] = Cardinality({k \in 1..Len(last.before) :
                                                   CategoryOf(last.before[k]) = c})
            /\ r.by_type["missing_tuv"] + r.by_type["invalid_structure"] + r.by_type["both_empty"]
                   + r.by_type["empty_source"] + r.by_type["empty_target"] = r.removed_count
            /\ r.removed_count + r.remaining_count = r.total_before
            /\ r.total_before = Len(last.before)
            /\ r.remaining_count = Len(body)

\* a call that removed units of two categories and left a valid unit
C7_Witness ==
    /\ AfterEmpty
    /\ last.result.by_type["both_empty"] > 0
    /\ last.result.by_type["empty_target"] > 0
    /\ Len(body) > 0

\* C8: after remove_empty_segments the memory holds exactly the units that
\* were valid before the call, in their order, and a second call would remove
\* nothing.
C8_KeepsValidUnits ==
    AfterEmpty =>
        /\ body = SelectSeq(last.before, Valid)
        /\ EmptyScan(body, 1, [to_remove |-> <<>>, by_type |-> [c \in Categories |-> 0]],
                     source_lang, target_lang).to_remove = <<>>

\* a call that removed a unit between two valid units
C8_Witness ==
    /\ AfterEmpty
    /\ Len(last.before) = 3
    /\ Len(body) = 2
    /\ body[1].id = last.before[1].id
    /\ body[2].id = last.before[3].id

(***************************************************************************)
(* Properties of find_fuzzy_duplicates.                                    *)
(***************************************************************************)
AfterFind == last.op = "find_fuzzy_duplicates"

\* the units of a group: its representative, then its similar members
GroupUnits(g) ==
    <<g.representative_tu>> \o [k \in 1..Len(g.similar_tus) |-> g.similar_tus[k].tu_number]

RECURSIVE AllGroupUnits(_)
AllGroupUnits(grps) ==
    IF grps = <<>> THEN <<>> ELSE GroupUnits(Head(grps)) \o AllGroupUnits(Tail(grps))

\* C9: the groups find_fuzzy_duplicates returns are disjoint: no unit occurs
\* twice over all representative and similar-member positions.
C9_GroupsDisjoint ==
    AfterFind =>
        LET units == AllGroupUnits(last.result.groups)
        IN  \A i, j \in 1..Len(units) : i /= j => units[i] /= units[j]

\* a search that returned two groups
C9_Witness ==
    /\ AfterFind
    /\ Len(last.result.groups) = 2
    /\ Len(AllGroupUnits(last.result.groups)) = 4

\* the unit at position k is a similar member of the group of representative r
MemberOf(grps, k, r) ==
    \E g \in 1..Len(grps) :
        /\ grps[g].representative_tu = r
        /\ \E m \in 1..Len(grps[g].similar_tus) : grps[g].similar_tus[m].tu_number = k

\* the unit at position k is a similar member of a group of another
\* representative than r
MatchedElsewhere(grps, k, r) ==
    \E g \in 1..Len(grps) : grps[g].representative_tu /= r /\ MemberOf(grps, k, grps[g].representative_tu)

\* the sources of the memory are color, colour, banana
IsColorColourBanana(tus) ==
    /\ Len(tus) = 3
    /\ GetTuTexts(tus[1]).source = Color
    /\ GetTuTexts(tus[2]).source = Colour
    /\ GetTuTexts(tus[3]).source = Banana

\* C10: two units with different normalized sources whose similarity ratio is
\* at least the threshold, neither matched to another representative, are in
\* one group with the shorter source as representative; 0.9 over color,
\* colour, banana gives the one group of color with colour.
C10_SimilarPairsGrouped ==
    AfterFind =>
        LET grps == last.result.groups
            src(k) == GetTuTexts(body[k]).source
        IN  /\ \A x, y \in 1..Len(body) :
                   ( /\ x /= y
                     /\ HasSource(body[x]) /\ HasSource(body[y])
                     /\ Normalize(src(x)) /= Normalize(src(y))
                     /\ Len(src(x)) <= Len(src(y))
                     /\ RatioGeq(Ratio(Lower(src(x)), Lower(src(y))), last.result.threshold)
                     /\ ~MatchedElsewhere(grps, x, y)
                     /\ ~MatchedElsewhere(grps, y, x) )
                   => \/ MemberOf(grps, y, x)
                      \/ Len(src(x)) = Len(src(y)) /\ MemberOf(grps, x, y)
            /\ (IsColorColourBanana(body) /\ last.result.threshold = <<9, 10>>) =>
                   /\ Len(grps) = 1
                   /\ grps[1].representative_tu = 1
                   /\ Len(grps[1].similar_tus) = 1
                   /\ grps[1].similar_tus[1].tu_number = 2

\* two units of the memory have sources that are equal once lowercased, and two
\* have sources that differ once normalized
HasEqualAndNearSources ==
    /\ \E x, y \in 1..Len(body) :
           /\ x /= y
           /\ Truthy(GetTuTexts(body[x]).source)
           /\ Lower(GetTuTexts(body[x]).source) = Lower(GetTuTexts(body[y]).source)
    /\ \E x, y \in 1..Len(body) :
           /\ Truthy(GetTuTexts(body[x]).source) /\ Truthy(GetTuTexts(body[y]).source)
           /\ Normalize(GetTuTexts(body[x]).source) /= Normalize(GetTuTexts(body[y]).source)

\* C11: with threshold 1.0 find_fuzzy_duplicates groups only units whose
\* lowercased sources are identical, and as one unit per normalized source
\* takes part in the clustering it returns no group at all.
C11_ThresholdOneNoGroup ==
    (AfterFind /\ last.result.threshold = <<1, 1>>) =>
        /\ \A g \in 1..Len(last.result.groups) :
               \A m \in 1..Len(last.result.groups[g].similar_tus) :
                   Lower(last.result.groups[g].similar_tus[m].source)
                       = Lower(last.result.groups[g].representative_source)
        /\ last.result.groups = <<>>

\* a search with threshold 1.0 in a memory that holds color and Color
C11_Witness ==
    /\ AfterFind
    /\ last.result.threshold = <<1, 1>>
    /\ HasEqualAndNearSources

(***************************************************************************)
(* Properties of remove_fuzzy_duplicates.                                  *)
(***************************************************************************)
AfterFuzzyRemove == last.op = "remove_fuzzy_duplicates"

\* the unit is referenced as a similar member of one of the groups
IsSimilarMember(grps, tu) ==
    \E g \in 1..Len(grps) :
        \E m \in 1..Len(grps[g].similar_tus) : grps[g].similar_tus[m].tu_element = tu.id

\* the unit with this identity is in the memory
Present(tus, id) == \E k \in 1..Len(tus) : tus[k].id = id

\* the units left are those that were there and are no similar member of the
\* groups, in their order, and removed_count is the number of units removed
RemovesPresentMembers ==
    AfterFuzzyRemove =>
        /\ body = SelectSeq(last.before, LAMBDA tu : ~IsSimilarMember(groups, tu))
        /\ last.result.removed_count = Len(last.before) - Len(body)

\* a removal made with the groups of the search before it keeps the
\* representative of every group
KeepsRepresentatives ==
    (AfterFind /\ last'.op = "remove_fuzzy_duplicates") =>
        \A g \in 1..Len(groups) : Present(body', body[groups[g].representative_tu].id)

\* a removal with groups none of whose similar members is in the memory (they
\* were submitted before, or another operation removed the members) removes
\* nothing and returns removed_count = 0
StaleGroupsNoOp ==
    ( /\ last'.op = "remove_fuzzy_duplicates"
      /\ \/ AfterFuzzyRemove
         \/ \A k \in 1..Len(body) : ~IsSimilarMember(groups, body[k]) ) =>
        /\ body' = body
        /\ last'.result.removed_count = 0

\* C12: remove_fuzzy_duplicates removes exactly the similar members of the
\* groups that are still in the memory and never a representative,
\* removed_count is the number of units removed, and a second submission of
\* the groups, or groups whose members are gone already, removes nothing and
\* returns removed_count = 0.
C12_RemovesSimilarMembersOnly ==
    /\ []RemovesPresentMembers
    /\ [][KeepsRepresentatives]_vars
    /\ [][StaleGroupsNoOp]_vars

\* a removal that found nothing left to remove: the groups are not empty and
\* none of their similar members is in the memory
C12_Witness ==
    /\ AfterFuzzyRemove
    /\ groups /= <<>>
    /\ last.result.removed_count = 0
    /\ Len(body) > 0

(***************************************************************************)
(* Operation 7: merge another memory into this one.                        *)
(***************************************************************************)
\* the largest number of units of the file that is merged in
MaxOther == 2

Strategies == {"skip", "replace", "keep_both"}

\* (tgt or "")
OrEmpty(text) == IF Truthy(text) THEN text ELSE <<>>

\* d[k] = v on a dict
Put(d, k, v) == [x \in (DOMAIN d) \cup {k} |-> IF x = k THEN v ELSE d[x]]

\* unit tu is a child of body
IsChild(tus, id) == \E k \in 1..Len(tus) : tus[k].id = id

\* the identities of the units tus
Ids(tus) == {tus[k].id : k \in 1..Len(tus)}

\* the largest identity among the elements ids, 0 when there is none
MaxId(ids) == IF ids = {} THEN 0 ELSE CHOOSE m \in ids : \A i \in ids : i <= m

\* the identities of n new elements: numbers no element had before
NewIds(used, n) == [k \in 1..n |-> MaxId(used) + k]

\* copy.deepcopy(tu): the same content in a new element
DeepCopy(tu, id) == [tu EXCEPT !.id = id]

\* the first loop of merge_from, over the units all_tus[k..] of this memory:
\* existing_pairs and existing_sources (normalized source -> element)
RECURSIVE ExistingIndex(_, _, _, _, _)
ExistingIndex(all_tus, k, idx, sl, tl) ==
    IF k > Len(all_tus) THEN idx
    ELSE LET tx == GetTuTextsFor(all_tus[k], sl, tl)
             norm_src == Normalize(tx.source)
             norm_tgt == Normalize(OrEmpty(tx.target))
         IN  IF tx.source = None
             THEN ExistingIndex(all_tus, k + 1, idx, sl, tl)
             ELSE ExistingIndex(all_tus, k + 1,
                                [existing_pairs |-> idx.existing_pairs
                                                        \cup {PairKey(norm_src, norm_tgt)},
                                 existing_sources |-> Put(idx.existing_sources, norm_src,
                                                          all_tus[k].id)],
                                sl, tl)

\* MergeStep whose replace appends the copy and leaves the old unit in place
MergeStepReplaceAppends(tu, st, strategy, osl, otl) ==
    LET tx == GetTuTextsFor(tu, osl, otl)
        norm_src == Normalize(tx.source)
        norm_tgt == Normalize(OrEmpty(tx.target))
        pair_key == PairKey(norm_src, norm_tgt)
        copy == DeepCopy(tu, st.new_ids[st.copies + 1])
    IN  IF tx.source = None THEN st
        ELSE IF pair_key \in st.existing_pairs
        THEN [st EXCEPT !.skipped = @ + 1]
        ELSE IF norm_src \in DOMAIN st.existing_sources
        THEN IF strategy = "skip"
             THEN [st EXCEPT !.skipped = @ + 1]
             ELSE IF strategy = "replace"
             THEN LET old_tu == st.existing_sources[norm_src]
                  IN  IF ~IsChild(st.body, old_tu)
                      THEN [st EXCEPT !.raised = "ValueError"]
                      ELSE [st EXCEPT !.body = Append(st.body, copy),
                                      !.copies = @ + 1,
                                      !.existing_sources = Put(st.existing_sources, norm_src, tu.id),
                                      !.replaced = @ + 1]
             ELSE IF strategy = "keep_both"
             THEN [st EXCEPT !.body = Append(st.body, copy),
                             !.copies = @ + 1,
                             !.added = @ + 1]
             ELSE st
        ELSE [st EXCEPT !.body = Append(st.body, copy),
                        !.copies = @ + 1,
                        !.existing_pairs = @ \cup {pair_key},
                        !.existing_sources = Put(st.existing_sources, norm_src, tu.id),
                        !.added = @ + 1]

\* MergeStep whose skip appends a unit with a known source and a new target
MergeStepSkipAppends(tu, st, strategy, osl, otl) ==
    LET tx == GetTuTextsFor(tu, osl, otl)
        norm_src == Normalize(tx.source)
        norm_tgt == Normalize(OrEmpty(tx.target))
        pair_key == PairKey(norm_src, norm_tgt)
        copy == DeepCopy(tu, st.new_ids[st.copies + 1])
    IN  IF tx.source = None THEN st
        ELSE IF pair_key \in st.existing_pairs
        THEN [st EXCEPT !.skipped = @ + 1]
        ELSE IF norm_src \in DOMAIN st.existing_sources
        THEN IF strategy = "skip"
             THEN [st EXCEPT !.body = Append(st.body, copy),
                             !.copies = @ + 1,
                             !.added = @ + 1]
             ELSE IF strategy = "replace"
             THEN LET old_tu == st.existing_sources[norm_src]
                  IN  IF ~IsChild(st.body, old_tu)
                      THEN [st EXCEPT !.raised = "ValueError"]
                      ELSE [st EXCEPT !.body = Append(SelectSeq(st.body,
                                                                LAMBDA u : u.id /= old_tu), copy),
                                      !.copies = @ + 1,
                                      !.existing_sources = Put(st.existing_sources, norm_src, tu.id),
                                      !.replaced = @ + 1]
             ELSE IF strategy = "keep_both"
             THEN [st EXCEPT !.body = Append(st.body, copy),
                             !.copies = @ + 1,
                             !.added = @ + 1]
             ELSE st
        ELSE [st EXCEPT !.body = Append(st.body, copy),
                        !.copies = @ + 1,
                        !.existing_pairs = @ \cup {pair_key},
                        !.existing_sources = Put(st.existing_sources, norm_src, tu.id),
                        !.added = @ + 1]

\* MergeStep that counts a unit without source text as skipped
MergeStepCountsNoSource(tu, st, strategy, osl, otl) ==
    LET tx == GetTuTextsFor(tu, osl, otl)
        norm_src == Normalize(tx.source)
        norm_tgt == Normalize(OrEmpty(tx.target))
        pair_key == PairKey(norm_src, norm_tgt)
        copy == DeepCopy(tu, st.new_ids[st.copies + 1])
    IN  IF tx.source = None THEN [st EXCEPT !.skipped = @ + 1]
        ELSE IF pair_key \in st.existing_pairs
        THEN [st EXCEPT !.skipped = @ + 1]
        ELSE IF norm_src \in DOMAIN st.existing_sources
        THEN IF strategy = "skip"
             THEN [st EXCEPT !.skipped = @ + 1]
             ELSE IF strategy = "replace"
             THEN LET old_tu == st.existing_sources[norm_src]
                  IN  IF ~IsChild(st.body, old_tu)
                      THEN [st EXCEPT !.raised = "ValueError"]
                      ELSE [st EXCEPT !.body = Append(SelectSeq(st.body,
                                                                LAMBDA u : u.id /= old_tu), copy),
                                      !.copies = @ + 1,
                                      !.existing_sources = Put(st.existing_sources, norm_src, tu.id),
                                      !.replaced = @ + 1]
             ELSE IF strategy = "keep_both"
             THEN [st EXCEPT !.body = Append(st.body, copy),
                             !.copies = @ + 1,
                             !.added = @ + 1]
             ELSE st
        ELSE [st EXCEPT !.body = Append(st.body, copy),
                        !.copies = @ + 1,
                        !.existing_pairs = @ \cup {pair_key},
                        !.existing_sources = Put(st.existing_sources, norm_src, tu.id),
                        !.added = @ + 1]

\* one iteration of the second loop of merge_from on the unit tu of the other
\* memory, whose language pair is osl -> otl.  st.raised is set when
\* body.remove(old_tu) raises ValueError: old_tu is no child of body
MergeStep(tu, st, strategy, osl, otl) ==
    LET tx == GetTuTextsFor(tu, osl, otl)
        norm_src == Normalize(tx.source)
        norm_tgt == Normalize(OrEmpty(tx.target))
        pair_key == PairKey(norm_src, norm_tgt)
        copy == DeepCopy(tu, st.new_ids[st.copies + 1])
    IN  IF tx.source = None THEN st
        ELSE IF pair_key \in st.existing_pairs
        THEN [st EXCEPT !.skipped = @ + 1]
        ELSE IF norm_src \in DOMAIN st.existing_sources
        THEN IF strategy = "skip"
             THEN [st EXCEPT !.skipped = @ + 1]
             ELSE IF strategy = "replace"
             THEN LET old_tu == st.existing_sources[norm_src]
                  IN  IF ~IsChild(st.body, old_tu)
                      THEN [st EXCEPT !.raised = "ValueError"]
                      ELSE [st EXCEPT !.body = Append(SelectSeq(st.body,
                                                                LAMBDA u : u.id /= old_tu), copy),
                                      !.copies = @ + 1,
                                      !.existing_sources = Put(st.existing_sources, norm_src, tu.id),
                                      !.replaced = @ + 1]
             ELSE IF strategy = "keep_both"
             THEN [st EXCEPT !.body = Append(st.body, copy),
                             !.copies = @ + 1,
                             !.added = @ + 1]
             ELSE st
        ELSE [st EXCEPT !.body = Append(st.body, copy),
                        !.copies = @ + 1,
                        !.existing_pairs = @ \cup {pair_key},
                        !.existing_sources = Put(st.existing_sources, norm_src, tu.id),
                        !.added = @ + 1]

\* the second loop of merge_from over other_tus[k..]; it ends at the first
\* exception
RECURSIVE MergeLoop(_, _, _, _, _, _)
MergeLoop(other_tus, k, st, strategy, osl, otl) ==
    IF k > Len(other_tus) \/ st.raised /= "" THEN st
    ELSE MergeLoop(other_tus, k + 1, MergeStep(other_tus[k], st, strategy, osl, otl),
                   strategy, osl, otl)

\* merge_from on the units all_tus of this memory (language pair sl -> tl) and
\* the other memory; new_ids are the identities of the copies it makes
MergeResult(all_tus, sl, tl, other_hdr, other_tus, strategy, new_ids) ==
    LET other_langs == DetectLanguagePair(other_hdr, other_tus)
        idx == ExistingIndex(all_tus, 1, [existing_pairs |-> {}, existing_sources |-> <<>>],
                             sl, tl)
    IN  MergeLoop(other_tus, 1,
                  [body |-> all_tus,
                   new_ids |-> new_ids,
                   copies |-> 0,
                   existing_pairs |-> idx.existing_pairs,
                   existing_sources |-> idx.existing_sources,
                   added |-> 0, skipped |-> 0, replaced |-> 0,
                   raised |-> ""],
                  strategy, other_langs[1], other_langs[2])

\* the elements of the other memory: they are no children of this body, their
\* identities are -1, -2, ...
OtherUnits(tuvs_list) == [k \in 1..Len(tuvs_list) |-> [id |-> 0 - k, tuvs |-> tuvs_list[k]]]

\* TMXEditor.merge_from(other_path, duplicate_strategy): the file other_path
\* holds the units other_tus under a header with srclang other_hdr.  When the
\* call raises, the memory stays as the loop left it and nothing is returned.
\* One merge is followed per memory: merge_from keeps nothing between two
\* calls but the units, and every call starts from a memory that was loaded
MergeFrom(other_hdr, other_tus, strategy) ==
    /\ last.op /= "merge_from"
    /\ \E m \in {MergeResult(body, source_lang, target_lang, other_hdr, other_tus, strategy,
                             NewIds(Ids(body) \cup Ids(last.before), Len(other_tus)))} :
        /\ body' = m.body
        /\ last' = [op |-> "merge_from",
                    before |-> body,
                    other |-> other_tus,
                    other_langs |-> DetectLanguagePair(other_hdr, other_tus),
                    strategy |-> strategy,
                    result |-> IF m.raised /= ""
                               THEN [raised |-> m.raised]
                               ELSE [raised |-> "",
                                     added |-> m.added,
                                     skipped |-> m.skipped,
                                     replaced |-> m.replaced,
                                     total_after |-> Len(m.body)]]
        /\ UNCHANGED <<header, source_lang, target_lang, groups, modifications_made, saved>>

Hello == <<"h","e","l","l","o">>
Hola == <<"h","o","l","a">>
Ciao == <<"c","i","a","o">>

\* units of this memory: one source with two targets, a unit with one variant
MergePool ==
    { Pair(Hello, Hola),
      Pair(<<"H","e","l","l","o"," ">>, Ciao),
      <<Tuv(EN, Cat)>> }

\* units of the other memory: the source of this memory with two targets, a
\* new source
OtherPool ==
    { Pair(Hello, Hola),
      Pair(Hello, Ciao),
      Pair(Cat, Gato) }

\* units of this memory whose keys hold the separator
MergeSepPool ==
    { Pair(<<"a">>, <<"x">>),
      Pair(<<"a","|">>, <<"b">>) }

\* units of the other memory: a known source with a new target
OtherSepPool ==
    { Pair(<<"a">>, <<"|","b">>),
      Pair(<<"a">>, <<"x">>) }

\* units of the other memory: a unit with one variant, a new source, a blank
\* source
OtherShapePool ==
    { <<Tuv(EN, Cat)>>,
      Pair(Cat, Gato),
      Pair(<<" ">>, Gato) }

\* the documents loaded to merge other files into
MergeDocuments ==
    { [pool |-> MergePool,    headers |-> {<<>>}, more |-> 0],
      [pool |-> MergeSepPool, headers |-> {<<>>}, more |-> 0] }

\* the files merged in: at most MaxOther units of one pool, no srclang
OtherFiles ==
    UNION { UNION { {OtherUnits(f) : f \in [1..n -> pool]} : n \in 0..MaxOther }
            : pool \in {OtherPool, OtherSepPool, OtherShapePool} }

InitMerge == Loaded(MergeDocuments)

NextMerge ==
    \E other_tus \in OtherFiles : \E strategy \in Strategies :
        MergeFrom(<<>>, other_tus, strategy)

SpecMerge == InitMerge /\ [][NextMerge]_vars

(***************************************************************************)
(* Properties of merge_from.                                               *)
(***************************************************************************)
AfterMerge == last.op = "merge_from"

\* the merge ran to its end and returned its counts
MergeCompleted == AfterMerge /\ last.result.raised = ""

\* the units of tus that are no units of others
NotIn(tus, others) == SelectSeq(tus, LAMBDA tu : ~IsChild(others, tu.id))

\* C13: when merge_from completes, total_after is the number of units before
\* the merge plus added and the number of units in the memory; a replace
\* swaps one unit for one: replaced units are gone and added + replaced units
\* are new.
C13_TotalAfter ==
    MergeCompleted =>
        /\ last.result.total_after = Len(last.before) + last.result.added
        /\ last.result.total_after = Len(body)
        /\ Len(NotIn(last.before, body)) = last.result.replaced
        /\ Len(NotIn(body, last.before)) = last.result.added + last.result.replaced

\* a merge with strategy replace that replaced a unit and added another
C13_Witness ==
    /\ MergeCompleted
    /\ last.strategy = "replace"
    /\ last.result.replaced > 0
    /\ last.result.added > 0

\* the normalized sources of the units tus that have a source text, read with
\* the language pair sl -> tl
NormSources(tus, sl, tl) ==
    {Normalize(GetTuTextsFor(tus[k], sl, tl).source) :
         k \in {i \in 1..Len(tus) : GetTuTextsFor(tus[i], sl, tl).source /= None}}

\* the normalized targets this memory had for a normalized source
NormTargetsOf(tus, sl, tl, norm_src) ==
    {Normalize(GetTuTextsFor(tus[k], sl, tl).target) :
         k \in {i \in 1..Len(tus) : /\ GetTuTextsFor(tus[i], sl, tl).source /= None
                                     /\ Normalize(GetTuTextsFor(tus[i], sl, tl).source)
                                            = norm_src}}

\* the texts of a unit of the other memory, read with that memory's pair
OtherTexts(tu) == GetTuTextsFor(tu, last.other_langs[1], last.other_langs[2])

\* the units appended by the merge: those behind the units that were there
Appended == SubSeq(body, Len(last.before) + 1, Len(body))

\* C14: under skip merge_from completes with the units it had as a prefix of
\* the merged sequence, replaced = 0, and every unit appended is a copy of a
\* unit of the other memory whose normalized source was not in this memory.
C14_SkipKeepsMemory ==
    (AfterMerge /\ last.strategy = "skip") =>
        /\ last.result.raised = ""
        /\ Len(body) >= Len(last.before)
        /\ SubSeq(body, 1, Len(last.before)) = last.before
        /\ last.result.replaced = 0
        /\ \A k \in 1..Len(Appended) :
               \E j \in 1..Len(last.other) :
                   /\ Appended[k].tuvs = last.other[j].tuvs
                   /\ OtherTexts(last.other[j]).source /= None
                   /\ Normalize(OtherTexts(last.other[j]).source)
                          \notin NormSources(last.before, source_lang, target_lang)

\* a merge with strategy skip that added a unit with a new source and skipped
\* a unit with a known source and a new target
C14_Witness ==
    /\ MergeCompleted
    /\ last.strategy = "skip"
    /\ last.result.added > 0
    /\ \E j \in 1..Len(last.other) :
           /\ OtherTexts(last.other[j]).source /= None
           /\ Normalize(OtherTexts(last.other[j]).source)
                  \in NormSources(last.before, source_lang, target_lang)
           /\ Normalize(OtherTexts(last.other[j]).target)
                  \notin NormTargetsOf(last.before, source_lang, target_lang,
                                       Normalize(OtherTexts(last.other[j]).source))

\* the units of tus whose normalized source is norm_src
WithSource(tus, norm_src) ==
    SelectSeq(tus, LAMBDA tu : /\ GetTuTexts(tu).source /= None
                               /\ Normalize(GetTuTexts(tu).source) = norm_src)

\* the normalized sources in conflict: in this memory before the merge, and in
\* the other memory with a normalized target this memory had not for it
Conflicting ==
    {Normalize(OtherTexts(last.other[j]).source) :
         j \in {i \in 1..Len(last.other) :
                    /\ OtherTexts(last.other[i]).source /= None
                    /\ Normalize(OtherTexts(last.other[i]).source)
                           \in NormSources(last.before, source_lang, target_lang)
                    /\ Normalize(OtherTexts(last.other[i]).target)
                           \notin NormTargetsOf(last.before, source_lang, target_lang,
                                                Normalize(OtherTexts(last.other[i]).source))}}

\* the merge of [(hello, hola), (hello, ciao)] into [(hello, hola)]
IsHelloExample ==
    /\ Len(last.before) = 1
    /\ last.before[1].tuvs = Pair(Hello, Hola)
    /\ Len(last.other) = 2
    /\ last.other[1].tuvs = Pair(Hello, Hola)
    /\ last.other[2].tuvs = Pair(Hello, Ciao)

\* C15: under replace, after merge_from completes every conflicting normalized
\* source occurs in exactly one unit of the memory and that unit has a target
\* of the other memory; merging [(hello, hola), (hello, ciao)] into
\* [(hello, hola)] gives skipped = 1, replaced = 1, added = 0, total_after = 1.
C15_ReplaceLeavesOneUnit ==
    (MergeCompleted /\ last.strategy = "replace") =>
        /\ \A norm_src \in Conflicting :
               /\ Len(WithSource(body, norm_src)) = 1
               /\ \E j \in 1..Len(last.other) :
                      /\ OtherTexts(last.other[j]).source /= None
                      /\ Normalize(OtherTexts(last.other[j]).source) = norm_src
                      /\ GetTuTexts(WithSource(body, norm_src)[1]).target
                             = OtherTexts(last.other[j]).target
        /\ IsHelloExample =>
               /\ last.result.skipped = 1
               /\ last.result.replaced = 1
               /\ last.result.added = 0
               /\ last.result.total_after = 1

\* C16: under keep_both, for a unit of the other memory whose normalized
\* source is in this memory with other normalized targets only, the memory
\* keeps its units unchanged at their positions and gets a copy of that unit
\* appended, counted in added, and replaced stays 0.
C16_KeepBothAppends ==
    (MergeCompleted /\ last.strategy = "keep_both") =>
        /\ SubSeq(body, 1, Len(last.before)) = last.before
        /\ last.result.replaced = 0
        /\ last.result.added = Len(Appended)
        /\ \A j \in 1..Len(last.other) :
               ( /\ OtherTexts(last.other[j]).source /= None
                 /\ Normalize(OtherTexts(last.other[j]).source) \in Conflicting
                 /\ Normalize(OtherTexts(last.other[j]).target)
                        \notin NormTargetsOf(last.before, source_lang, target_lang,
                                             Normalize(OtherTexts(last.other[j]).source)) )
               => \E k \in 1..Len(Appended) : Appended[k].tuvs = last.other[j].tuvs

\* C17: merge_from either runs to completion and returns its counts, or
\* raises while the units of the memory are still what they were before the
\* call (remove_empty_segments, remove_exact_duplicates and
\* remove_fuzzy_duplicates have no statement that raises after the first
\* removal).
C17_NoFailureAfterChange ==
    (AfterMerge /\ last.result.raised /= "") => body = last.before

(***************************************************************************)
(* Operation 5: filter and export.                                         *)
(***************************************************************************)
\* The patterns of the model are written with letters, ".", "(" and ")".
\* re.compile accepts such a pattern when its parentheses are balanced, and
\* raises re.error otherwise
RECURSIVE Balanced(_, _)
Balanced(pattern, open) ==
    IF pattern = <<>> THEN open = 0
    ELSE IF Head(pattern) = "(" THEN Balanced(Tail(pattern), open + 1)
    ELSE IF Head(pattern) = ")" THEN open > 0 /\ Balanced(Tail(pattern), open - 1)
    ELSE Balanced(Tail(pattern), open)

\* the pattern without its group parentheses: what it matches, atom by atom
Atoms(pattern) == SelectSeq(pattern, LAMBDA c : c \notin {"(", ")"})

\* one atom against one character under re.IGNORECASE: "." is every character
\* but the newline, a letter is itself in either case
AtomMatches(atom, c) ==
    IF atom = "." THEN c /= "\n" ELSE LowerChar(atom) = LowerChar(c)

\* re.compile(pattern, re.IGNORECASE).search(text) is not None
Search(pattern, text) ==
    LET atoms == Atoms(pattern)
    IN  \E start \in 0..(Len(text) - Len(atoms)) :
            \A k \in 1..Len(atoms) : AtomMatches(atoms[k], text[start + k])

\* creationdate[:8]
DatePart(creation_date) == Prefix(creation_date, 8)

\* FilterStep that inverts before it drops the units without source
FilterStepInvertFirst(tu, args, sl, tl) ==
    LET tx == GetTuTextsFor(tu, sl, tl)
        src_ok == args.source_pattern = None \/ Search(args.source_pattern, OrEmpty(tx.source))
        tgt_ok == args.target_pattern = None \/ Search(args.target_pattern, OrEmpty(tx.target))
        from_ok == args.date_from = None \/ ~StrLess(DatePart(tu.creationdate), args.date_from)
        to_ok == args.date_to = None \/ ~StrLess(args.date_to, DatePart(tu.creationdate))
        match == tx.source /= None /\ src_ok /\ tgt_ok /\ from_ok /\ to_ok
    IN  IF args.invert THEN ~match ELSE match

\* the body of the loop of filter_tus on the unit tu: TRUE when tu is appended
\* to matching.  A pattern or date that is None or "" is no criterion
FilterStep(tu, args, sl, tl) ==
    LET tx == GetTuTextsFor(tu, sl, tl)
        src_ok == args.source_pattern = None \/ Search(args.source_pattern, tx.source)
        tgt_ok == args.target_pattern = None \/ Search(args.target_pattern, OrEmpty(tx.target))
        from_ok == args.date_from = None \/ ~StrLess(DatePart(tu.creationdate), args.date_from)
        to_ok == args.date_to = None \/ ~StrLess(args.date_to, DatePart(tu.creationdate))
        match == src_ok /\ tgt_ok /\ from_ok /\ to_ok
    IN  IF tx.source = None THEN FALSE
        ELSE IF args.invert THEN ~match ELSE match

\* "x if x else None" for a str argument: None and "" are no criterion
OrNone(text) == IF Truthy(text) THEN text ELSE None

\* FilterResult that compiles the patterns inside the loop: with no unit to
\* scan nothing is compiled and nothing raised
FilterResultLazyCompile(all_tus, sl, tl, source_pattern, target_pattern, date_from, date_to, invert) ==
    LET args == [source_pattern |-> OrNone(source_pattern),
                 target_pattern |-> OrNone(target_pattern),
                 date_from |-> OrNone(date_from),
                 date_to |-> OrNone(date_to),
                 invert |-> invert]
    IN  IF /\ all_tus /= <<>>
           /\ \/ args.source_pattern /= None /\ ~Balanced(args.source_pattern, 0)
              \/ args.target_pattern /= None /\ ~Balanced(args.target_pattern, 0)
        THEN [raised |-> "re.error"]
        ELSE [raised |-> "", matching |-> <<>>]

\* TMXEditor.filter_tus on the units all_tus: the two patterns are compiled
\* first, and re.error is raised before the loop starts
FilterResult(all_tus, sl, tl, source_pattern, target_pattern, date_from, date_to, invert) ==
    LET args == [source_pattern |-> OrNone(source_pattern),
                 target_pattern |-> OrNone(target_pattern),
                 date_from |-> OrNone(date_from),
                 date_to |-> OrNone(date_to),
                 invert |-> invert]
    IN  IF \/ args.source_pattern /= None /\ ~Balanced(args.source_pattern, 0)
           \/ args.target_pattern /= None /\ ~Balanced(args.target_pattern, 0)
        THEN [raised |-> "re.error"]
        ELSE [raised |-> "",
              matching |-> SelectSeq(all_tus, LAMBDA tu : FilterStep(tu, args, sl, tl))]

\* a call of TMXEditor.filter_tus
FilterTus(source_pattern, target_pattern, date_from, date_to, invert) ==
    /\ \E r \in {FilterResult(body, source_lang, target_lang, source_pattern,
                              target_pattern, date_from, date_to, invert)} :
           last' = [op |-> "filter_tus",
                    before |-> body,
                    source_pattern |-> source_pattern,
                    target_pattern |-> target_pattern,
                    date_from |-> date_from,
                    date_to |-> date_to,
                    invert |-> invert,
                    result |-> r]
    /\ UNCHANGED <<body, header, source_lang, target_lang, groups, modifications_made, saved>>

\* input(...).strip() or None
StripOrNone(line) == OrNone(Strip(line))

\* _handle_filter_export with the four lines typed and the answer to the
\* invert question: reported is what is printed for a bad pattern, exported
\* the units written by export_filtered (None when no file is written), and
\* modified the value returned to the menu
HandleFilterExport(source_line, target_line, from_line, to_line, invert) ==
    /\ \E r \in {FilterResult(body, source_lang, target_lang, StripOrNone(source_line),
                              StripOrNone(target_line), StripOrNone(from_line),
                              StripOrNone(to_line), invert)} :
           last' = [op |-> "_handle_filter_export",
                    before |-> body,
                    source_pattern |-> StripOrNone(source_line),
                    target_pattern |-> StripOrNone(target_line),
                    date_from |-> StripOrNone(from_line),
                    date_to |-> StripOrNone(to_line),
                    invert |-> invert,
                    result |-> IF r.raised /= ""
                               THEN [reported |-> "Invalid regex pattern", exported |-> None,
                                     modified |-> FALSE]
                               ELSE IF r.matching = <<>>
                               THEN [reported |-> "", exported |-> None, modified |-> FALSE]
                               ELSE [reported |-> "", exported |-> r.matching,
                                     modified |-> FALSE]]
    /\ UNCHANGED <<body, header, source_lang, target_lang, groups, modifications_made, saved>>

\* ExportedDocument that leaves the units of the copied tree in its body
ExportedDocumentKeepsUnits(hdr, all_tus, tu_elements, new_ids) ==
    [header |-> hdr,
     body |-> [k \in 1..Len(all_tus) |-> DeepCopy(all_tus[k], new_ids[k])]
              \o [k \in 1..Len(tu_elements) |->
                     DeepCopy(tu_elements[k], new_ids[Len(all_tus) + k])]]

\* the tree export_filtered writes: a deep copy of the loaded tree (its header
\* with it) whose <tu> children are removed and replaced by deep copies of
\* tu_elements, in their order; new_ids are the identities of the copies
ExportedDocument(hdr, all_tus, tu_elements, new_ids) ==
    [header |-> hdr,
     body |-> [k \in 1..Len(tu_elements) |->
                  DeepCopy(tu_elements[k], new_ids[Len(all_tus) + k])]]

\* TMXEditor.export_filtered(tu_elements, output_path): written is the
\* document in the file output_path
ExportFiltered(tu_elements) ==
    /\ \E doc \in {ExportedDocument(header, body, tu_elements,
                                     NewIds(Ids(body), Len(body) + Len(tu_elements)))} :
           last' = [op |-> "export_filtered",
                    before |-> body,
                    tu_elements |-> tu_elements,
                    result |-> [written |-> doc]]
    /\ UNCHANGED <<body, header, source_lang, target_lang, groups, modifications_made, saved>>

\* list(reversed(tus))
Reversed(tus) == [k \in 1..Len(tus) |-> tus[Len(tus) + 1 - k]]

\* the lists of elements handed to export_filtered: the units filter_tus
\* returned, as the filter handler passes them, or the same in reverse order
Selections ==
    IF last.op = "filter_tus" /\ last.result.raised = ""
    THEN {last.result.matching, Reversed(last.result.matching)}
    ELSE {}

\* units with a creationdate attribute ("" when there is none)
Dated(tuvs, creation_date) == [tuvs |-> tuvs, creationdate |-> creation_date]

Date2023 == <<"2","0","2","3","0","6","1","5","T","1","0","1","5","0","0","Z">>
Date2024 == <<"2","0","2","4","0","1","0","1","T","0","0","0","0","0","0","Z">>

\* units to filter: with one variant, with no target text and no date, with
\* dates on and after the day asked for
FilterPool ==
    { Dated(Pair(Cat, Gato), Date2023),
      Dated(<<Tuv(EN, Cat)>>, Date2023),
      Dated(Pair(Dog, <<>>), <<>>),
      Dated(Pair(<<"C","A","T">>, Gato), Date2024) }

AnyCat == <<"c", ".", "T">>
GroupO == <<"(", "o", ")">>
Day == <<"2","0","2","3","0","6","1","5">>

\* the calls of filter_tus: source_pattern, target_pattern, date_from and
\* date_to.  No criterion, valid patterns, patterns re.compile rejects, dates
FilterCalls ==
    { <<<<>>, <<>>, <<>>, <<>>>>,
      <<AnyCat, <<>>, <<>>, <<>>>>,
      <<<<>>, GroupO, <<>>, <<>>>>,
      <<AnyCat, GroupO, Day, Day>>,
      <<<<"(">>, <<>>, <<>>, <<>>>>,
      <<AnyCat, <<")">>, <<>>, <<>>>>,
      <<<<>>, <<>>, Day, <<>>>>,
      <<<<>>, <<>>, <<>>, Day>> }

\* the lines typed for the two patterns in _handle_filter_export
FilterLines ==
    { <<<<" ">>, <<>>>>, <<<<" ", "c", ".", "T", " ">>, <<>>>>,
      <<<<" ", "(">>, <<>>>>, <<<<>>, <<")", " ">>>> }

\* the state after TMXEditor.load of a document of at most MaxUnits dated units
InitFilter ==
    /\ header \in {<<>>, EN}
    /\ \E n \in 0..MaxUnits : \E f \in [1..n -> FilterPool] :
           body = [i \in 1..n |-> [id |-> i, tuvs |-> f[i].tuvs,
                                   creationdate |-> f[i].creationdate]]
    /\ source_lang = DetectLanguagePair(header, body)[1]
    /\ target_lang = DetectLanguagePair(header, body)[2]
    /\ groups = <<>>
    /\ last = [op |-> "load", before |-> <<>>, result |-> [total |-> Len(body)]]
    /\ modifications_made = FALSE
    /\ saved = body

NextFilter ==
    \/ \E c \in FilterCalls : \E invert \in BOOLEAN :
           FilterTus(c[1], c[2], c[3], c[4], invert)
    \/ \E l \in FilterLines : \E invert \in BOOLEAN :
           HandleFilterExport(l[1], l[2], <<>>, <<" ">>, invert)
    \/ \E tu_elements \in Selections : ExportFiltered(tu_elements)

SpecFilter == InitFilter /\ [][NextFilter]_vars

(***************************************************************************)
(* Properties of filter_tus and of the filter handler.                     *)
(***************************************************************************)
AfterFilter == last.op = "filter_tus"

AfterFilterHandler == last.op = "_handle_filter_export"

\* the result of the call made last, had it been made with the other value
\* of invert
OppositeResult ==
    FilterResult(last.before, source_lang, target_lang, last.source_pattern,
                 last.target_pattern, last.date_from, last.date_to, ~last.invert)

\* the units of tus in the order of the memory before the call
InMemoryOrder(tus) == tus = SelectSeq(last.before, LAMBDA tu : IsChild(tus, tu.id))

\* C18: filter_tus returns no unit whose source extraction is None, with or
\* without invert; the results with and without invert partition the units
\* with a source, each in the order of the memory: with invert the result is
\* the units with a source that the call without invert does not return.
C18_InvertIsComplement ==
    (AfterFilter /\ last.result.raised = "") =>
        LET this == last.result.matching
            that == OppositeResult.matching
        IN  /\ \A k \in 1..Len(this) : HasSource(this[k])
            /\ \A k \in 1..Len(last.before) :
                   HasSource(last.before[k]) =>
                       (IsChild(this, last.before[k].id) <=> ~IsChild(that, last.before[k].id))
            /\ InMemoryOrder(this)
            /\ InMemoryOrder(that)
            /\ last.invert =>
                   this = SelectSeq(last.before,
                                    LAMBDA tu : HasSource(tu) /\ ~IsChild(that, tu.id))

\* an inverted call with criteria, on a memory with a unit without source: it
\* returns units, and so does the call that is not inverted
C18_Witness ==
    /\ AfterFilter
    /\ last.result.raised = ""
    /\ last.invert
    /\ last.source_pattern /= <<>>
    /\ \E k \in 1..Len(last.before) : ~HasSource(last.before[k])
    /\ last.result.matching /= <<>>
    /\ OppositeResult.matching /= <<>>

\* re.compile rejects the pattern: it is given and its parentheses are not
\* balanced
InvalidPattern(pattern) == Truthy(pattern) /\ ~Balanced(pattern, 0)

\* C19: filter_tus with an invalid source or target pattern raises the
\* pattern error whatever the memory holds, returns no list and leaves the
\* memory as it was; the filter handler reports the error, exports nothing
\* and returns to the menu with "not modified".
C19_BadPatternRejected ==
    /\ (AfterFilter /\ (InvalidPattern(last.source_pattern) \/ InvalidPattern(last.target_pattern)))
           => /\ last.result = [raised |-> "re.error"]
              /\ body = last.before
    /\ (AfterFilterHandler
            /\ (InvalidPattern(last.source_pattern) \/ InvalidPattern(last.target_pattern)))
           => /\ last.result.reported /= ""
              /\ last.result.exported = None
              /\ last.result.modified = FALSE
              /\ body = last.before

\* the handler was given the line " (" for the source pattern on a memory
\* that holds units matching every valid pattern
C19_Witness ==
    /\ AfterFilterHandler
    /\ last.source_pattern = <<"(">>
    /\ \E k \in 1..Len(body) : HasSource(body[k])

(***************************************************************************)
(* Loading a file into a new editor.                                       *)
(***************************************************************************)
\* TMXEditor(): no tree, source_lang = target_lang = ""
InitDetect ==
    /\ body = <<>>
    /\ header = <<>>
    /\ source_lang = <<>>
    /\ target_lang = <<>>
    /\ groups = <<>>
    /\ last = [op |-> "__init__", before |-> <<>>, result |-> <<>>]
    /\ modifications_made = FALSE
    /\ saved = <<>>

\* TMXEditor.load of a file whose header has srclang hdr and whose body holds
\* the units tus; an editor loads its file once, after it is made
Load(hdr, tus) ==
    /\ last.op = "__init__"
    /\ body' = tus
    /\ header' = hdr
    /\ \E pair \in {DetectLanguagePair(hdr, tus)} :
           /\ source_lang' = pair[1]
           /\ target_lang' = pair[2]
    /\ groups' = <<>>
    /\ last' = [op |-> "load", before |-> <<>>, result |-> [total |-> Len(tus)]]
    /\ saved' = tus
    /\ UNCHANGED modifications_made

\* a unit with one variant less than the sample holds, all tagged en
WideUnit == [k \in 1..(SampleSize - 1) |-> Tuv(EN, <<"a">>)]

\* units with two tags, with tags in capitals, with no tags, with many variants
DetectPool ==
    { Pair(Cat, Gato),
      <<Tuv(<<"F","R">>, <<"c","h","a","t">>), Tuv(<<"D","E">>, <<"a">>)>>,
      <<Tuv(<<>>, Cat), Tuv(<<>>, Gato)>>,
      WideUnit }

\* the srclang attributes of the headers: absent, a tag of the units in
\* capitals, a tag no unit has
DetectHeaders == {<<>>, <<"E","N">>, <<"f","r">>, <<"x","x">>}

NextDetect ==
    \E hdr \in DetectHeaders : \E n \in 0..MaxUnits : \E f \in [1..n -> DetectPool] :
        Load(hdr, [i \in 1..n |-> [id |-> i, tuvs |-> f[i]]])

SpecDetect == InitDetect /\ [][NextDetect]_vars

(***************************************************************************)
(* Properties of the language pair detection.                              *)
(***************************************************************************)
AfterLoad == last.op = "load"

\* the variants of the memory in document order
Variants == AllTuvs(body)

\* S: the distinct lowercased tags of the first 40 variants
SampledTags ==
    {Lower(Variants[k].lang) : k \in {i \in 1..Len(Variants) : i <= 40 /\ Variants[i].lang /= <<>>}}

\* the lexicographically smallest tag of a set
Smallest(tags) == CHOOSE s \in tags : \A t \in tags : s = t \/ StrLess(s, t)

\* C20: the pair detected depends only on the header's source language and
\* the set S of the lowercased tags of the first 40 variants: (unknown,
\* unknown) for no tag, (tag, unknown) for one, (header language, smallest
\* other tag) when the lowercased header language is one of two tags or more,
\* else the two smallest tags.
C20_DetectedPair ==
    AfterLoad =>
        LET S == SampledTags
            h == Lower(header)
        IN  <<source_lang, target_lang>> =
                IF S = {} THEN <<Unknown, Unknown>>
                ELSE IF Cardinality(S) = 1 THEN <<Smallest(S), Unknown>>
                ELSE IF h \in S THEN <<h, Smallest(S \ {h})>>
                ELSE <<Smallest(S), Smallest(S \ {Smallest(S)})>>

\* a file with more than 40 variants, a tag that occurs behind the 40th
\* variant only, and a header language in capitals that is one of the tags
C20_Witness ==
    /\ AfterLoad
    /\ Len(Variants) > 40
    /\ \E k \in 41..Len(Variants) : Variants[k].lang /= <<>> /\ Lower(Variants[k].lang) \notin SampledTags
    /\ Cardinality(SampledTags) >= 2
    /\ header /= Lower(header)
    /\ Lower(header) \in SampledTags

(***************************************************************************)
(* Properties of find_fuzzy_duplicates: the length cut-off and the         *)
(* reduction to one unit per source.                                       *)
(***************************************************************************)
\* the inner loop of find_fuzzy_duplicates for representative i, from j on,
\* with the test of lines 337-338 left out: every unmatched j is compared
RECURSIVE FuzzyInnerNoExit(_, _, _, _, _, _)
FuzzyInnerNoExit(unique_tus, i, j, matched, group_similar, threshold) ==
    IF j > Len(unique_tus)
    THEN [matched |-> matched, group_similar |-> group_similar]
    ELSE IF j \in matched
    THEN FuzzyInnerNoExit(unique_tus, i, j + 1, matched, group_similar, threshold)
    ELSE LET ratio == Ratio(Lower(unique_tus[i].source), Lower(unique_tus[j].source))
         IN  IF RatioGeq(ratio, threshold)
             THEN FuzzyInnerNoExit(unique_tus, i, j + 1, matched \cup {j},
                                   Append(group_similar,
                                          [tu_number |-> unique_tus[j].tu_number,
                                           tu_element |-> unique_tus[j].tu_element,
                                           source |-> unique_tus[j].source,
                                           target |-> unique_tus[j].target,
                                           similarity |-> Similarity(ratio)]),
                                   threshold)
             ELSE FuzzyInnerNoExit(unique_tus, i, j + 1, matched, group_similar, threshold)

\* the outer loop of find_fuzzy_duplicates over the inner loop without the cut-off
RECURSIVE FuzzyOuterNoExit(_, _, _, _, _)
FuzzyOuterNoExit(unique_tus, i, matched, grps, threshold) ==
    IF i > Len(unique_tus) THEN grps
    ELSE IF i \in matched THEN FuzzyOuterNoExit(unique_tus, i + 1, matched, grps, threshold)
    ELSE LET inner == FuzzyInnerNoExit(unique_tus, i, i + 1, matched, <<>>, threshold)
         IN  FuzzyOuterNoExit(unique_tus, i + 1, inner.matched,
                              IF inner.group_similar /= <<>>
                              THEN Append(grps, [representative_tu |-> unique_tus[i].tu_number,
                                                 representative_source |-> unique_tus[i].source,
                                                 representative_target |-> unique_tus[i].target,
                                                 similar_tus |-> inner.group_similar])
                              ELSE grps,
                              threshold)

\* unique_tus as find_fuzzy_duplicates sorted it for the search made last
SortedUnique == SortByLen(UniqueBySource(TuData(last.before, 1, source_lang, target_lang), {}))

\* the cut-off test is true for the items i < j of unique_tus
CutOff(unique_tus, i, j, threshold) ==
    Pruned(Len(unique_tus[i].source), Len(unique_tus[j].source), threshold)

\* C21: the length cut-off does not change the result of find_fuzzy_duplicates:
\* wherever the test len_j > len_i / threshold is true for two items i < j of
\* the sorted list, the ratio of i with j and with every later item is below
\* the threshold, and the groups returned equal those of the same greedy
\* clustering without the cut-off.
C21_EarlyExitKeepsGroups ==
    AfterFind =>
        LET u == SortedUnique
            threshold == last.result.threshold
        IN  /\ \A i, j \in 1..Len(u) :
                   (i < j /\ CutOff(u, i, j, threshold)) =>
                       \A m \in j..Len(u) :
                           ~RatioGeq(Ratio(Lower(u[i].source), Lower(u[m].source)), threshold)
            /\ last.result.groups = FuzzyOuterNoExit(u, 1, {}, <<>>, threshold)

(***************************************************************************)
(* Properties of merge_from: repeated sources in the other memory, exact   *)
(* pairs, and the counters.                                                *)
(***************************************************************************)
\* the positions of the units of the other memory that have a source text
OtherWithSource == {j \in 1..Len(last.other) : OtherTexts(last.other[j]).source /= None}

\* the normalized source of the unit at position j of the other memory
OtherNormSource(j) == Normalize(OtherTexts(last.other[j]).source)

\* the normalized target ((tgt or "") normalized) of that unit
OtherNormTarget(j) == Normalize(OrEmpty(OtherTexts(last.other[j]).target))

\* position j holds the last unit of the other memory with its normalized source
LastOfSource(j) ==
    /\ j \in OtherWithSource
    /\ \A m \in OtherWithSource : OtherNormSource(m) = OtherNormSource(j) => m <= j

\* the normalized targets the units tus of this memory have for norm_src
BodyTargetsOf(tus, norm_src) ==
    {Normalize(OrEmpty(GetTuTexts(tus[k]).target)) :
         k \in {i \in 1..Len(tus) : /\ GetTuTexts(tus[i]).source /= None
                                     /\ Normalize(GetTuTexts(tus[i]).source) = norm_src}}

\* C22: under replace merge_from completes, also when the other memory holds
\* several units with one normalized source; every unit of it whose target
\* differs from the unit then in this memory replaces that unit, so that
\* afterwards this memory holds, for each source of the other memory, the
\* target of the last unit the other memory has for it, in one unit when it
\* had one unit for that source or none.
C22_ReplaceCompletes ==
    (AfterMerge /\ last.strategy = "replace") =>
        /\ last.result.raised = ""
        /\ \A j \in OtherWithSource :
               LastOfSource(j) =>
                   /\ OtherNormTarget(j) \in BodyTargetsOf(body, OtherNormSource(j))
                   /\ Len(WithSource(last.before, OtherNormSource(j))) <= 1
                          => Len(WithSource(body, OtherNormSource(j))) = 1

\* the pair key merge_from computes for the unit at position x of the merged
\* memory: with this memory's language pair for a unit it had, with the other
\* memory's pair for a copy
MergedKey(x) ==
    LET tx == IF IsChild(last.before, body[x].id) THEN GetTuTexts(body[x]) ELSE OtherTexts(body[x])
    IN  PairKey(Normalize(tx.source), Normalize(OrEmpty(tx.target)))

\* the unit at position x of the merged memory has a source text
MergedHasSource(x) ==
    IF IsChild(last.before, body[x].id)
    THEN GetTuTexts(body[x]).source /= None
    ELSE OtherTexts(body[x]).source /= None

\* C23: under every strategy merge_from appends no unit whose pair key is the
\* key of a unit that is in this memory at that moment, the copies appended
\* earlier in the same merge included: no copy in the merged memory has the
\* pair key of a unit that stands before it.
C23_NoExactPairAppended ==
    AfterMerge =>
        \A x, y \in 1..Len(body) :
            ( /\ x < y
              /\ ~IsChild(last.before, body[y].id)
              /\ MergedHasSource(x) /\ MergedHasSource(y) )
            => MergedKey(x) /= MergedKey(y)

\* C28: when merge_from completes, added + skipped + replaced is the number of
\* units of the other memory that have a source text; a unit of it with fewer
\* than 2 variants is not counted and no copy of it is in this memory.
C28_CountsUnitsWithSource ==
    MergeCompleted =>
        /\ last.result.added + last.result.skipped + last.result.replaced
               = Cardinality(OtherWithSource)
        /\ \A j \in 1..Len(last.other) :
               Len(last.other[j].tuvs) < 2 => j \notin OtherWithSource
        /\ \A x \in 1..Len(body) :
               ~IsChild(last.before, body[x].id) => Len(body[x].tuvs) >= 2

\* a completed merge of a memory with a unit of one variant and a unit with an
\* empty source text, which was added
C28_Witness ==
    /\ MergeCompleted
    /\ \E j \in 1..Len(last.other) : Len(last.other[j].tuvs) < 2
    /\ \E j \in OtherWithSource : OtherTexts(last.other[j]).source = <<>>
    /\ last.result.added > 0
    /\ Len(last.before) > 0

\* the unit at position k of tus has a source text and an earlier unit of tus
\* has the same normalized source
LaterSource(tus, k) ==
    /\ HasSource(tus[k])
    /\ \E m \in 1..(k - 1) :
           /\ HasSource(tus[m])
           /\ Normalize(GetTuTexts(tus[m]).source) = Normalize(GetTuTexts(tus[k]).source)

\* the unit at position k is the representative or a similar member of a group
InGroups(grps, k) ==
    \E g \in 1..Len(grps) :
        \/ grps[g].representative_tu = k
        \/ \E m \in 1..Len(grps[g].similar_tus) : grps[g].similar_tus[m].tu_number = k

\* no group of the search names a unit whose normalized source an earlier unit has
NoLaterSourceInGroups ==
    AfterFind =>
        \A k \in 1..Len(body) : LaterSource(body, k) => ~InGroups(last.result.groups, k)

\* a removal made with the groups of the search before it keeps every unit
\* whose normalized source an earlier unit has
LaterSourceKept ==
    (AfterFind /\ last'.op = "remove_fuzzy_duplicates") =>
        \A k \in 1..Len(body) : LaterSource(body, k) => Present(body', body[k].id)

\* C24: a unit whose normalized source is that of an earlier unit of the
\* memory is in no group find_fuzzy_duplicates returns, neither as
\* representative nor as similar member, and remove_fuzzy_duplicates applied
\* to those groups does not remove it.
C24_FirstUnitPerSourceOnly ==
    /\ []NoLaterSourceInGroups
    /\ [][LaterSourceKept]_vars

\* a removal that removed a similar member and left a unit whose normalized
\* source an earlier unit has
C24_Witness ==
    /\ AfterFuzzyRemove
    /\ last.result.removed_count > 0
    /\ \E k \in 1..Len(body) : LaterSource(body, k)

(***************************************************************************)
(* Properties of the date bounds of filter_tus and of export_filtered.     *)
(***************************************************************************)
\* C25: with invert off and a date bound supplied, every unit filter_tus
\* returns has a creationdate whose first 8 characters are not below the
\* lower bound and not above the upper bound, where supplied; a unit without
\* creationdate is not returned, whichever of the two bounds is supplied.
C25_DateBounds ==
    ( /\ AfterFilter
      /\ last.result.raised = ""
      /\ ~last.invert
      /\ (Truthy(last.date_from) \/ Truthy(last.date_to)) ) =>
        \A k \in 1..Len(last.result.matching) :
            LET tu == last.result.matching[k]
            IN  /\ tu.creationdate /= <<>>
                /\ Truthy(last.date_from) => ~StrLess(DatePart(tu.creationdate), last.date_from)
                /\ Truthy(last.date_to) => ~StrLess(last.date_to, DatePart(tu.creationdate))

AfterExport == last.op = "export_filtered"

\* C26: export_filtered writes a document with the header of the loaded one
\* and a body that holds deep copies of the given units, in the given order,
\* and nothing else; the units of the loaded memory, their order and their
\* content are after the export what they were before it.
C26_ExportCopiesGivenUnits ==
    AfterExport =>
        LET doc == last.result.written
        IN  /\ doc.header = header
            /\ Len(doc.body) = Len(last.tu_elements)
            /\ \A k \in 1..Len(doc.body) :
                   /\ doc.body[k] = DeepCopy(last.tu_elements[k], doc.body[k].id)
                   /\ ~IsChild(body, doc.body[k].id)
                   /\ \A m \in 1..Len(doc.body) : doc.body[m].id = doc.body[k].id => m = k
            /\ body = last.before

\* an export of two units in the reverse of their order in a memory that
\* holds more
C26_Witness ==
    /\ AfterExport
    /\ header /= <<>>
    /\ Len(body) > 2
    /\ Len(last.tu_elements) = 2
    /\ \E x, y \in 1..Len(body) :
           x < y /\ last.tu_elements[1] = body[y] /\ last.tu_elements[2] = body[x]

(***************************************************************************)
(* Statistics.                                                             *)
(***************************************************************************)
\* the second loop of get_statistics over all_tus[k..]: the number of units
\* whose key was seen before
RECURSIVE StatDuplicates(_, _, _, _, _)
StatDuplicates(all_tus, k, seen, sl, tl) ==
    IF k > Len(all_tus) THEN 0
    ELSE LET tx == GetTuTextsFor(all_tus[k], sl, tl)
             key == PairKey(Normalize(tx.source), Normalize(OrEmpty(tx.target)))
         IN  IF tx.source = None THEN StatDuplicates(all_tus, k + 1, seen, sl, tl)
             ELSE IF key \in seen THEN 1 + StatDuplicates(all_tus, k + 1, seen, sl, tl)
             ELSE StatDuplicates(all_tus, k + 1, seen \cup {key}, sl, tl)

\* Statistics that counts as empty only the units that have texts
StatisticsSkipsNoTexts(all_tus, sl, tl) ==
    [total_tus |-> Len(all_tus),
     source_lang |-> sl,
     target_lang |-> tl,
     empty_segments |->
         Cardinality({k \in 1..Len(all_tus) :
                          LET tx == GetTuTextsFor(all_tus[k], sl, tl)
                          IN  tx.source /= None /\ (~Truthy(tx.source) \/ ~Truthy(tx.target))}),
     exact_duplicates |-> StatDuplicates(all_tus, 1, {}, sl, tl)]

\* the dictionary get_statistics returns for the units all_tus.  empty_count
\* counts "not src or not tgt": None and "" alike.  segments_with_tags and
\* file are left out: a <seg> is modelled by its text, without its inline
\* elements, and the file name is no part of the memory
Statistics(all_tus, sl, tl) ==
    [total_tus |-> Len(all_tus),
     source_lang |-> sl,
     target_lang |-> tl,
     empty_segments |->
         Cardinality({k \in 1..Len(all_tus) :
                          LET tx == GetTuTextsFor(all_tus[k], sl, tl)
                          IN  ~Truthy(tx.source) \/ ~Truthy(tx.target)}),
     exact_duplicates |-> StatDuplicates(all_tus, 1, {}, sl, tl)]

\* TMXEditor.get_statistics
GetStatistics ==
    /\ \E stats \in {Statistics(body, source_lang, target_lang)} :
           last' = [op |-> "get_statistics", before |-> body, result |-> stats]
    /\ UNCHANGED <<body, header, source_lang, target_lang, groups, modifications_made, saved>>

\* the menu shows the statistics and offers the cleaning operations
NextStats ==
    \/ GetStatistics
    \/ RemoveExactDuplicates
    \/ RemoveEmptySegments

SpecStats == Init /\ [][NextStats]_vars

(***************************************************************************)
(* Properties of text extraction and of get_statistics.                    *)
(***************************************************************************)
\* x is a str: a sequence of characters, not None
IsText(x) == x /= None /\ \A i \in 1..Len(x) : x[i] \in {CharTable[c] : c \in 1..Len(CharTable)}

\* what _get_tu_texts returns for the unit tu is (None, None) exactly when tu
\* has fewer than 2 variants, and two strings otherwise, "" for a variant
\* whose <seg> is missing or blank
ExtractionTotal(tu) ==
    LET tx == GetTuTexts(tu)
        p == PickTuvs(tu.tuvs, source_lang, target_lang)
        blank(seg) == seg = None \/ \A i \in 1..Len(seg) : IsSpace(seg[i])
    IN  /\ (tx.source = None /\ tx.target = None) <=> Len(tu.tuvs) < 2
        /\ Len(tu.tuvs) >= 2 =>
               /\ IsText(tx.source) /\ IsText(tx.target)
               /\ blank(tu.tuvs[p[1]].seg) => tx.source = <<>>
               /\ blank(tu.tuvs[p[2]].seg) => tx.target = <<>>

\* C27: text extraction returns (None, None) exactly for a unit with fewer
\* than 2 variants and two strings for every other unit, so that
\* remove_empty_segments counts no unit as invalid_structure.
C27_NoInvalidStructure ==
    /\ \A k \in 1..Len(body) : ExtractionTotal(body[k])
    /\ \A k \in 1..Len(last.before) : ExtractionTotal(last.before[k])
    /\ AfterEmpty => last.result.by_type["invalid_structure"] = 0

\* remove_empty_segments removed a unit of two variants whose source variant
\* has no <seg>
C27_Witness ==
    /\ AfterEmpty
    /\ last.result.removed_count > 0
    /\ \E k \in 1..Len(last.before) :
           /\ Len(last.before[k].tuvs) >= 2
           /\ last.before[k].tuvs[1].seg = None
           /\ ~IsChild(body, last.before[k].id)

AfterStats == last.op = "get_statistics"

\* the counts of get_statistics are the numbers of units the two cleaning
\* operations would remove from the memory as it is, and the memory is what it
\* was before the call
StatsAgree ==
    AfterStats =>
        /\ last.result.exact_duplicates = Len(ExactScan(body, 1, {}, <<>>, <<>>).to_remove)
        /\ last.result.empty_segments
               = Len(EmptyScan(body, 1, [to_remove |-> <<>>, by_type |-> [c \in Categories |-> 0]],
                               source_lang, target_lang).to_remove)
        /\ last.result.total_tus = Len(body)
        /\ body = last.before

\* a cleaning operation made directly after get_statistics returns the count
\* get_statistics reported for it
StatsThenClean ==
    AfterStats =>
        /\ last'.op = "remove_exact_duplicates"
               => last'.result.removed_count = last.result.exact_duplicates
        /\ last'.op = "remove_empty_segments"
               => last'.result.removed_count = last.result.empty_segments

\* C29: get_statistics agrees with the cleaning operations on the same memory:
\* exact_duplicates is the removed_count of remove_exact_duplicates and
\* empty_segments the removed_count of remove_empty_segments run directly
\* afterwards, and get_statistics leaves the memory unchanged.
C29_StatisticsAgree ==
    /\ []StatsAgree
    /\ [][StatsThenClean]_vars

\* statistics of a memory with an exact duplicate, a unit of one variant and
\* units left after both cleaning operations
C29_Witness ==
    /\ AfterStats
    /\ last.result.exact_duplicates > 0
    /\ last.result.empty_segments > 0
    /\ \E k \in 1..Len(body) : Len(body[k].tuvs) < 2
    /\ last.result.total_tus > last.result.exact_duplicates + last.result.empty_segments

(***************************************************************************)
(* The user interface (src/tmx_tui.py): the handlers that change the       *)
(* memory, save it, open another file and quit.  Each handler leaves in    *)
(* last its name and what it showed or asked.                              *)
(***************************************************************************)
\* SystemExit was raised: the main loop has returned
Exited == last.op = "_try_quit" /\ last.result.exited

\* what a handler leaves in last
Handled(op, result) == [op |-> op, result |-> result]

\* TMXTui._op_dedup
OpDedup ==
    /\ ~Exited
    /\ \E scan \in {ExactScan(body, 1, {}, <<>>, <<>>)} :
           /\ body' = RemoveAll(body, scan.to_remove)
           /\ modifications_made' = IF Len(scan.to_remove) > 0 THEN TRUE ELSE modifications_made
           /\ last' = Handled("_op_dedup", [removed_count |-> Len(scan.to_remove)])
    /\ UNCHANGED <<header, source_lang, target_lang, groups, saved>>

\* TMXTui._op_remove_empty
OpRemoveEmpty ==
    /\ ~Exited
    /\ \E scan \in {EmptyScan(body, 1, [to_remove |-> <<>>, by_type |-> [c \in Categories |-> 0]],
                             source_lang, target_lang)} :
           /\ body' = RemoveAll(body, scan.to_remove)
           /\ modifications_made' = IF Len(scan.to_remove) > 0 THEN TRUE ELSE modifications_made
           /\ last' = Handled("_op_remove_empty", [removed_count |-> Len(scan.to_remove)])
    /\ UNCHANGED <<header, source_lang, target_lang, groups, saved>>

\* TMXTui._op_fuzzy with the threshold typed and the answer to "Remove them?":
\* the groups are local to the handler
OpFuzzy(threshold, confirm) ==
    /\ ~Exited
    /\ \E grps \in {FuzzyGroups(body, source_lang, target_lang, threshold)} :
           IF grps = <<>>
           THEN /\ last' = Handled("_op_fuzzy", [asked |-> FALSE, removed_count |-> 0])
                /\ UNCHANGED <<body, modifications_made>>
           ELSE IF confirm
           THEN \E loop \in {FuzzyRemoveLoop(body, SimilarIds(grps), 0)} :
                    /\ body' = loop.body
                    /\ modifications_made' = TRUE
                    /\ last' = Handled("_op_fuzzy", [asked |-> TRUE, removed_count |-> loop.removed])
           ELSE /\ last' = Handled("_op_fuzzy", [asked |-> TRUE, removed_count |-> 0])
                /\ UNCHANGED <<body, modifications_made>>
    /\ UNCHANGED <<header, source_lang, target_lang, groups, saved>>

\* the file chosen in a file dialog: one that holds the units tus, one that
\* ET.parse rejects, or none (the dialog was left, or the path is no file)
File(tus) == [chosen |-> "file", tus |-> tus]

Broken == [chosen |-> "broken", tus |-> <<>>]

NoFile == [chosen |-> "none", tus |-> <<>>]

\* TMXTui._op_merge with the file chosen: merge_from is called with strategy
\* skip; an exception of merge_from is shown and the flag left as it is
OpMerge(file) ==
    /\ ~Exited
    /\ IF file = NoFile
       THEN /\ last' = Handled("_op_merge", [status_message |-> "Merge cancelled."])
            /\ UNCHANGED <<body, modifications_made>>
       ELSE IF file = Broken
       THEN /\ last' = Handled("_op_merge", [status_message |-> "Merge error"])
            /\ UNCHANGED <<body, modifications_made>>
       ELSE \E m \in {MergeResult(body, source_lang, target_lang, <<>>, OtherUnits(file.tus), "skip",
                                  NewIds(Ids(body) \cup Ids(saved), Len(file.tus)))} :
                /\ body' = m.body
                /\ IF m.raised /= ""
                   THEN /\ last' = Handled("_op_merge", [status_message |-> "Merge error"])
                        /\ UNCHANGED modifications_made
                   ELSE /\ last' = Handled("_op_merge", [status_message |-> "Merge", added |-> m.added,
                                                         skipped |-> m.skipped])
                        /\ modifications_made' = IF m.added > 0 THEN TRUE ELSE modifications_made
    /\ UNCHANGED <<header, source_lang, target_lang, groups, saved>>

\* what happens in the "Save As" dialog and in editor.save: the dialog is
\* left without a path, the file is written, or writing it raises
SaveOutcomes == {"cancelled", "written", "error"}

\* TMXTui._op_save
OpSave(outcome) ==
    /\ ~Exited
    /\ IF ~modifications_made
       THEN /\ last' = Handled("_op_save", [status_message |-> "No modifications to save."])
            /\ UNCHANGED <<modifications_made, saved>>
       ELSE IF outcome = "written"
       THEN /\ saved' = body
            /\ modifications_made' = FALSE
            /\ last' = Handled("_op_save", [status_message |-> "Saved to"])
       ELSE IF outcome = "error"
       THEN /\ last' = Handled("_op_save", [status_message |-> "Save error"])
            /\ UNCHANGED <<modifications_made, saved>>
       ELSE /\ last' = Handled("_op_save", [status_message |-> ""])
            /\ UNCHANGED <<modifications_made, saved>>
    /\ UNCHANGED <<body, header, source_lang, target_lang, groups>>

\* TMXTui._op_open with the answer to "Discard unsaved changes?" and the file
\* chosen.  _load_file catches the exception of a load that fails, in which
\* case the editor keeps the tree it had; the flag is cleared after _load_file
\* in both cases
OpOpen(confirm, file) ==
    /\ ~Exited
    /\ IF modifications_made /\ ~confirm
       THEN /\ last' = Handled("_op_open", [asked |-> TRUE, loaded |-> FALSE])
            /\ UNCHANGED <<body, header, source_lang, target_lang, modifications_made, saved>>
       ELSE IF file = NoFile
       THEN /\ last' = Handled("_op_open", [asked |-> modifications_made, loaded |-> FALSE])
            /\ UNCHANGED <<body, header, source_lang, target_lang, modifications_made, saved>>
       ELSE IF file = Broken
       THEN /\ last' = Handled("_op_open", [asked |-> modifications_made, loaded |-> FALSE])
            /\ modifications_made' = FALSE
            /\ UNCHANGED <<body, header, source_lang, target_lang, saved>>
       ELSE /\ body' = [i \in 1..Len(file.tus) |-> [id |-> i, tuvs |-> file.tus[i]]]
            /\ header' = <<>>
            /\ \E pair \in {DetectLanguagePair(<<>>, body')} :
                   /\ source_lang' = pair[1]
                   /\ target_lang' = pair[2]
            /\ saved' = body'
            /\ modifications_made' = FALSE
            /\ last' = Handled("_op_open", [asked |-> modifications_made, loaded |-> TRUE])
    /\ UNCHANGED groups

\* TMXTui._try_quit with the answer to "Quit anyway?"
TryQuit(confirm) ==
    /\ ~Exited
    /\ last' = Handled("_try_quit", [asked |-> modifications_made,
                                     exited |-> ~modifications_made \/ confirm])
    /\ UNCHANGED <<body, header, source_lang, target_lang, groups, modifications_made, saved>>

Cats == <<"c","a","t","s">>

\* the files chosen in "Open TMX File": a memory with an exact and a near
\* duplicate, a memory with an empty source, a file that does not parse, none
TuiFiles ==
    { File(<<Pair(Cat, Gato), Pair(Cat, Gato), Pair(Cats, Gato)>>),
      File(<<Pair(<<>>, Gato), Pair(Dog, Perro)>>),
      Broken,
      NoFile }

\* the files chosen in "Merge TMX File": a new source, a known pair, a file
\* that does not parse, none
TuiOtherFiles == { File(<<Pair(Dog, Perro)>>), File(<<Pair(Cat, Gato)>>), Broken, NoFile }

\* the threshold typed in the "Fuzzy Duplicates" dialog: 50
TuiThreshold == <<1, 2>>

\* TMXTui.run loaded the file it was started with: one of the memories
InitTui ==
    /\ \E file \in {f \in TuiFiles : f.chosen = "file"} :
           body = [i \in 1..Len(file.tus) |-> [id |-> i, tuvs |-> file.tus[i]]]
    /\ header = <<>>
    /\ source_lang = DetectLanguagePair(header, body)[1]
    /\ target_lang = DetectLanguagePair(header, body)[2]
    /\ groups = <<>>
    /\ last = [op |-> "run", result |-> [total |-> Len(body)]]
    /\ modifications_made = FALSE
    /\ saved = body

\* the main loop: one handler per key or menu item
NextTui ==
    \/ OpDedup
    \/ OpRemoveEmpty
    \/ \E confirm \in BOOLEAN : OpFuzzy(TuiThreshold, confirm)
    \/ \E file \in TuiOtherFiles : OpMerge(file)
    \/ \E outcome \in SaveOutcomes : OpSave(outcome)
    \/ \E confirm \in BOOLEAN : \E file \in TuiFiles : OpOpen(confirm, file)
    \/ \E confirm \in BOOLEAN : TryQuit(confirm)

SpecTui == InitTui /\ [][NextTui]_vars

(***************************************************************************)
(* Properties of the user interface.                                       *)
(***************************************************************************)
\* the memory holds changes that no successful save has written
Unsaved == body /= saved

\* C30: in the user interface changes that are not saved are never discarded
\* without asking: modifications_made is true whenever the memory holds
\* changes not written by a successful save, after every sequence of cleaning
\* operations, merges, saves and open attempts (one whose load fails
\* included), so that quitting does not exit without asking and Save does not
\* answer "No modifications to save." while there are such changes.
C30_UnsavedChangesFlagged ==
    /\ Unsaved => modifications_made
    /\ (last.op = "_try_quit" /\ last.result.exited /\ ~last.result.asked) => ~Unsaved
    /\ (last.op = "_op_save" /\ last.result.status_message = "No modifications to save.")
           => ~Unsaved

====
